---------------------------- MODULE Spec2Model ----------------------------
(***************************************************************************)
(* The weighted rate-limited request scheduler of hlbot's Hyperliquid      *)
(* client: the persistent weight ledger and budget gate (waitForBudget),   *)
(* the request executor (postInfo) and the pagination walker               *)
(* (getAllUserFills).                                                      *)
(*                                                                         *)
(* Time is in milliseconds.  A synchronous run of JavaScript between two   *)
(* awaits is one action taken at one instant (Date.now() is constant       *)
(* inside it).  A timer fires exactly at its deadline: the clock never     *)
(* passes a pending deadline.  A fetch answers after a latency chosen when *)
(* it is sent, or is aborted by its own timer.                             *)
(***************************************************************************)
EXTENDS Integers, Sequences, FiniteSets, TLC

\* ------------------------------------------------------------------------
\* Program constants
\* ------------------------------------------------------------------------
WEIGHT_LIMIT == 800
WEIGHT_WINDOW_MS == 60000
MIN_REQUEST_GAP_MS == 200
LIGHT_WEIGHT == 2
HEAVY_WEIGHT == 20
POLL_FLOOR_MS == 500
POLL_MARGIN_MS == 100
POLL_CEILING_MS == 10000
maxRetries == 3
BACKOFF_UNIT_MS == 1000
DEFAULT_TIMEOUT_MS == 15000
FILLS_PAGE_LIMIT == 2000
\* endTime === undefined
NoEnd == -1

LIGHT_WEIGHT_TYPES ==
    {"clearinghouseState", "allMids", "l2Book", "orderStatus",
     "spotClearinghouseState", "exchangeStatus"}

\* ------------------------------------------------------------------------
\* Bounds of the model
\* ------------------------------------------------------------------------
\* Date.now() when the page's module is initialised.
PageLoadTs == 100000
\* Concurrent callers of postInfo (the UI starts them in parallel).
NumCallers == 2
\* postInfo calls the callers start in one run of the page, all together.
MaxCalls == 3
\* Grants an earlier page session left in the durable slot.
MaxPrior == 38
\* Network latency of an answered fetch.
LatFast == 50
\* HTTP 429 answers the server gives in one run of the page.
Max429 == 1
\* The same two bounds where one caller makes its calls one after another.
MaxPostCalls == 2
MaxPost429 == 4
\* How far inside the window (ms) a loaded entry is at page load, and how
\* many milliseconds pass, in the ledger-only specification.
MaxSkew == 2
MaxTicks == 3
\* getAllUserFills: the largest maxPages, the largest run of fills sharing
\* one time value, and the non-zero startTime and the endTime of the calls.
MaxPages == 3
MaxGroup == 2
LateStart == 2
EndCut == 2500

\* waitForBudget on its own: admissions of other callers and onRateLimited
\* runs that happen while the call goes on, and the iterations of its loop.
MaxOthers == 1
MaxResets == 1
MaxPolls == 6
MaxGatePrior == 3

\* lib/hyperliquid.ts: the heavy and the light calls a sequence starts with,
\* and the milliseconds between two calls of a sequence.
SeqHeavy == 10
SeqLight == 50
MaxStep == 1

Callers == 1 .. NumCallers
Latencies == {LatFast}
\* Request types the callers use: one light, one heavy.
CallTypes == {"clearinghouseState", "userFillsByTime"}

VARIABLES
    now,            \* Date.now()
    weightLog,      \* the in-memory ledger: Seq of [weight, ts]
    lastRequestTs,  \* time of the last grant, 0 before the first
    stored,         \* the localStorage slot: [kind, log]
    pc,             \* per caller: where its postInfo call is suspended
    reqType,        \* per caller: body.type of its call
    attempt,        \* per caller: postInfo's loop variable (-1 before the loop)
    wakeAt,         \* per caller: deadline of the timer or answer it awaits
    timer,          \* per caller: deadline of the armed abort timer, 0 if cleared
    result,         \* per caller: how its last postInfo call settled
    calls,          \* postInfo calls started so far, by all callers
    seenUsed,       \* per caller asleep for the gap: the consumed() value its check read
    dirty,          \* per caller asleep for the gap: what other callers did since its check
    grantLog,       \* history: the last two grants, in grant order
    resets,         \* history: onRateLimited runs
    n429,           \* history: 429 answers received
    hist,           \* per caller: history of its current postInfo call
    checkedAt,      \* history: time of the last consumedWeight() call, 0 if none
    feed,           \* the server's fill feed and how the server answers
    walk,           \* the arguments of the getAllUserFills call
    wpc,            \* where the getAllUserFills call is
    page,           \* its loop variable
    currentStart,   \* its cursor
    allFills,       \* its accumulator: the fills (by tid) collected so far
    reqs,           \* history: the single-page requests sent
    pages,          \* history: the pages received, [size, lastTime]
    walkResult,     \* how the getAllUserFills promise settled: [kind, fills, err]
    raised,         \* history: the error the failed page call rejected with
    gate,           \* a waitForBudget(weight) call made on its own, and its history
    lib,            \* the caller of lib/hyperliquid.ts's waitForBudget, and its history
    procs,          \* per process sharing the slot: its module state and its history
    posn            \* a getAllPositions(user) call, the server it talks to, and its history

limVars == <<now, weightLog, lastRequestTs, stored, pc, reqType, attempt, wakeAt,
             timer, result, calls, seenUsed, dirty, grantLog, resets, n429, hist,
             checkedAt>>
walkVars == <<feed, walk, wpc, page, currentStart, allFills, reqs, pages,
              walkResult, raised>>
vars == <<limVars, walkVars, gate, lib, procs, posn>>

\* No getAllPositions call has been made: nothing asked, nothing settled.
NoPositions ==
    [pc |-> "idle", fills |-> <<>>, book |-> "none", dexNames |-> <<>>, dex |-> 0,
     allPositions |-> <<>>, asked |-> <<>>, answers |-> <<>>,
     result |-> [kind |-> "pending", positions |-> <<>>, err |-> "none"]]

\* ------------------------------------------------------------------------
\* Pure helpers
\* ------------------------------------------------------------------------
Max(a, b) == IF a >= b THEN a ELSE b
Min(a, b) == IF a <= b THEN a ELSE b

\* The value that stands for NaN: what a stored item without a numeric
\* weight (or without a numeric ts) yields where a number is read from it.
NotANumber == -1

\* a + b and a <= b on numbers: NaN is absorbing in a sum, and every
\* comparison with NaN is false.
JsAdd(a, b) == IF a = NotANumber \/ b = NotANumber THEN NotANumber ELSE a + b
JsLeq(a, b) == a # NotANumber /\ b # NotANumber /\ a <= b

\* weightLog.reduce((s, e) => s + e.weight, 0)
\* (NaN as soon as one weight is no number, the sum of the weights otherwise)
RECURSIVE SumNumbers(_)
SumNumbers(log) ==
    IF log = <<>> THEN 0 ELSE Head(log).weight + SumNumbers(Tail(log))
SumWeights(log) ==
    IF \E i \in 1 .. Len(log) : JsAdd(0, log[i].weight) = NotANumber
    THEN NotANumber
    ELSE SumNumbers(log)

RECURSIVE Pow2(_)
Pow2(n) == IF n = 0 THEN 1 ELSE 2 * Pow2(n - 1)

\* A table that takes what it does not know for light.
getWeight_LightDefault(type) ==
    IF type \in {"userFillsByTime", "userFills", "portfolio"}
    THEN HEAVY_WEIGHT ELSE LIGHT_WEIGHT

getWeight(type) == IF type \in LIGHT_WEIGHT_TYPES THEN LIGHT_WEIGHT ELSE HEAVY_WEIGHT

\* A filter that drops the entry whose timestamp is the cutoff itself.
InWindow_Strict(e, t) == e.ts > t - WEIGHT_WINDOW_MS

\* A prune that empties the ledger.
PruneLog_Clear(log, t) == <<>>

\* weightLog.filter((e) => e.ts >= cutoff) with cutoff = t - WEIGHT_WINDOW_MS
InWindow(e, t) == JsLeq(t - WEIGHT_WINDOW_MS, e.ts)
PruneLog(log, t) == SelectSeq(log, LAMBDA e : InWindow(e, t))

\* consumedWeight() at time t: the pruned ledger and the sum it returns.
consumedWeight(log, t) == SumWeights(PruneLog(log, t))

\* A save that writes an empty array.
saveWeightLog_Empty(log) == [kind |-> "entries", log |-> <<>>]

\* The slot after saveWeightLog(): JSON.stringify of the ledger.
saveWeightLog(log) == [kind |-> "entries", log |-> log]

\* What the slot can hold, by what loadWeightLog and saveWeightLog meet:
\*   "none"        there is no localStorage (the typeof test fails);
\*   "absent"      getItem returns null;
\*   "invalidJson" JSON.parse throws;
\*   "notArray"    the parsed value has no filter method (an object, a
\*                 number, a string, null): parsed.filter throws;
\*   "nullItem"    an array holding null: the filter callback throws;
\*   "notEntries"  an array of objects that are no entries (the weight or
\*                 the ts is no number): the filter runs on them;
\*   "entries"     an array of entries;
\*   "full"        an array of entries in a storage whose setItem throws.
FilteredKinds == {"entries", "full", "notEntries"}
ThrowingKinds == {"invalidJson", "notArray", "nullItem"}
UnwritableKinds == {"none", "full"}

\* A load that starts every process from an empty ledger.
loadWeightLog_Fresh(slot, t) == <<>>

\* loadWeightLog() at time t: the ledger the module starts with.  Where
\* the try block throws, or raw is null, the ledger keeps its initial [].
loadWeightLog(slot, t) ==
    IF slot.kind \in FilteredKinds THEN PruneLog(slot.log, t) ELSE <<>>

\* What the caller of saveWeightLog() sees of a failed write: nothing.
SaveError_Uncaught(slot) == IF slot.kind = "full" THEN "QuotaExceededError" ELSE "none"
SaveError(slot) == "none"

\* The slot after the whole of saveWeightLog(): the write is skipped
\* without localStorage, and a setItem that throws leaves the slot as it
\* was.
SaveSlot(slot, log) ==
    IF slot.kind \in UnwritableKinds THEN slot ELSE saveWeightLog(log)

\* A synthetic entry dated half a window ahead.
ExhaustedLog_Ahead(t) == <<[weight |-> WEIGHT_LIMIT, ts |-> t + WEIGHT_WINDOW_MS \div 2]>>

\* A synthetic entry that is not backdated.
ExhaustedLog_NotBackdated(t) == <<[weight |-> WEIGHT_LIMIT, ts |-> t]>>

\* onRateLimited()'s synthetic entry at time t.
ExhaustedLog(t) == <<[weight |-> WEIGHT_LIMIT, ts |-> t - WEIGHT_WINDOW_MS \div 2]>>

\* A budget test that forgets the weight asked for.
BudgetOk_Loose(used, weight) == used <= WEIGHT_LIMIT

\* A budget test that leaves one unit of the limit unused.
BudgetOk_Strict(used, weight) == used + weight < WEIGHT_LIMIT

\* A budget test that lets any request through an empty ledger.
BudgetOk_EmptyPass(used, weight) == used = 0 \/ used + weight <= WEIGHT_LIMIT

\* The budget test of waitForBudget.
BudgetOk(used, weight) == JsLeq(JsAdd(used, weight), WEIGHT_LIMIT)

\* The limiter of src/lib/hyperliquid.ts: its limit and the floor, the
\* margin and the ceiling of its poll sleep.
LIB_WEIGHT_LIMIT == 1100
LIB_POLL_FLOOR_MS == 200
LIB_POLL_MARGIN_MS == 50
LIB_POLL_CEILING_MS == 5000

\* Its consumedWeight(): entries are shifted off the front while older than
\* the cutoff.
RECURSIVE LibPrune(_, _)
LibPrune(log, t) ==
    IF log # <<>> /\ Head(log).ts < t - WEIGHT_WINDOW_MS
    THEN LibPrune(Tail(log), t)
    ELSE log

\* A budget test that forgets the weight asked for.
LibBudgetOk_Loose(used, weight) == used <= LIB_WEIGHT_LIMIT

\* A budget test that stops one short of the limit.
LibBudgetOk_Strict(used, weight) == used + weight < LIB_WEIGHT_LIMIT

\* Its budget test.
LibBudgetOk(used, weight) == used + weight <= LIB_WEIGHT_LIMIT

\* Its poll sleep on the pruned ledger.
LibPollSleep(log, t) ==
    LET oldest == IF Len(log) > 0 THEN log[1].ts ELSE t
        waitMs == Max(LIB_POLL_FLOOR_MS, oldest + WEIGHT_WINDOW_MS - t + LIB_POLL_MARGIN_MS)
    IN  Min(waitMs, LIB_POLL_CEILING_MS)

\* A poll sleep that waits for the oldest entry's expiry in one go.
PollSleep_NoCeiling(log, t) ==
    LET oldest == IF Len(log) > 0 THEN log[1].ts ELSE t
    IN  Max(POLL_FLOOR_MS, oldest + WEIGHT_WINDOW_MS - t + POLL_MARGIN_MS)

\* The poll sleep of waitForBudget on the pruned ledger.
PollSleep(log, t) ==
    LET oldest == IF Len(log) > 0 THEN log[1].ts ELSE t
        waitMs == Max(POLL_FLOOR_MS, oldest + WEIGHT_WINDOW_MS - t + POLL_MARGIN_MS)
    IN  Min(waitMs, POLL_CEILING_MS)

\* The gap sleep of waitForBudget, 0 when none is taken.
GapSleep(t, last) ==
    IF t - last < MIN_REQUEST_GAP_MS THEN MIN_REQUEST_GAP_MS - (t - last) ELSE 0

\* A backoff that starts at 1 s: 1 s, 2 s, 4 s.
BackoffDelay_Half(a) == Pow2(a) * BACKOFF_UNIT_MS

\* The backoff before retry number attempt + 1: 2 s, 4 s, 8 s.
BackoffDelay(a) == Pow2(a + 1) * BACKOFF_UNIT_MS

\* A run of n heavy grants, MIN_REQUEST_GAP_MS apart, the last one
\* MIN_REQUEST_GAP_MS before t: what a busy earlier session persisted.
PriorRun(n, t) ==
    [i \in 1 .. n |->
        [weight |-> HEAVY_WEIGHT, ts |-> t - (n - i + 1) * MIN_REQUEST_GAP_MS]]

StoredSlots ==
    {[kind |-> "absent", log |-> <<>>],
     [kind |-> "entries", log |-> PriorRun(MaxPrior, PageLoadTs)]}


\* ------------------------------------------------------------------------
\* Initial state: the module has just been loaded (loadWeightLog has run).
\* ------------------------------------------------------------------------
NoHist ==
    [sent |-> 0, grants |-> 0, lastOut |-> "none", only429 |-> TRUE,
     t429 |-> 0, slept |-> 0, sentAt |-> 0, status |-> 0]

InitWith(slots) ==
    /\ now = PageLoadTs
    /\ stored \in slots
    /\ weightLog = loadWeightLog(stored, PageLoadTs)
    /\ lastRequestTs = 0
    /\ pc = [c \in Callers |-> "idle"]
    /\ reqType = [c \in Callers |-> "userFillsByTime"]
    /\ attempt = [c \in Callers |-> -1]
    /\ wakeAt = [c \in Callers |-> 0]
    /\ timer = [c \in Callers |-> 0]
    /\ result = [c \in Callers |-> "none"]
    /\ calls = 0
    /\ seenUsed = [c \in Callers |-> 0]
    /\ dirty = [c \in Callers |-> "clean"]
    /\ grantLog = <<>>
    /\ resets = 0
    /\ n429 = 0
    /\ hist = [c \in Callers |-> NoHist]
    /\ checkedAt = 0

\* The promise of getAllUserFills: pending, resolved with the accumulator
\* (line 254), or rejected with the error that left the loop.
Pending == [kind |-> "pending", fills |-> <<>>, err |-> "none"]
Resolved(fills) == [kind |-> "resolved", fills |-> fills, err |-> "none"]
Rejected(err) == [kind |-> "rejected", fills |-> <<>>, err |-> err]

\* No waitForBudget call is made on its own.
NoGate ==
    [pc |-> "idle", weight |-> 0, wakeAt |-> 0, startedAt |-> 0, grantedAt |-> 0,
     polls |-> 0, resetAt |-> 0, touched |-> FALSE, others |-> 0, resets |-> 0,
     idled |-> FALSE, overlap |-> FALSE, overtaken |-> FALSE]

\* lib/hyperliquid.ts's limiter is not used.
NoLib ==
    [pc |-> "idle", plan |-> [heavy |-> 0, light |-> 0, step |-> 0], made |-> 0,
     asked |-> 0, weight |-> 0, wakeAt |-> 0, polls |-> 0, oldest |-> 0,
     grantedAt |-> 0]

\* The processes that share the slot.  A process that has not started has
\* no module state yet.  weightLog and lastRequestTs are its module
\* variables; the other fields are history: the ledger loadWeightLog left,
\* the kind of slot it read, the entries its own grants pushed, its
\* onRateLimited runs, its waitForBudget calls, how the first of them went,
\* what its last save raised to the caller, and its successful writes.
Procs == {1, 2}
DownProc ==
    [up |-> FALSE, startedAt |-> 0, weightLog |-> <<>>, lastRequestTs |-> 0,
     loaded |-> <<>>, slotKind |-> "unread", own |-> <<>>, resets |-> 0,
     admits |-> 0, first |-> "none", err |-> "none", writes |-> 0, wrote |-> <<>>]
NoProcs == [p \in Procs |-> DownProc]

\* No getAllUserFills call is made.
NoWalk ==
    /\ feed = [n |-> 0, g |-> 1, shift |-> 0, mode |-> "honest"]
    /\ walk = [user |-> "0xabc", startTime |-> 0, endTime |-> NoEnd, maxPages |-> 0]
    /\ wpc = "idle"
    /\ page = 0
    /\ currentStart = 0
    /\ allFills = <<>>
    /\ reqs = <<>>
    /\ pages = <<>>
    /\ walkResult = Pending
    /\ raised = "none"

\* ------------------------------------------------------------------------
\* postInfo: the loop head and the send
\* ------------------------------------------------------------------------
\* The condition of postInfo's for loop.
LoopContinues(a) == a <= maxRetries

\* A timer that gives the fetch twice the time.
AbortDeadline_Late(t) == t + 2 * DEFAULT_TIMEOUT_MS

\* setTimeout(() => controller.abort(), timeoutMs) at time t (line 172).
AbortDeadline(t) == t + DEFAULT_TIMEOUT_MS

\* The loop of postInfo entered with loop variable a (first entry, or after
\* a `continue`): the body up to `await fetch`, with the abort timer armed;
\* the answer comes after a latency in lats (an answer due at or after the
\* timer's deadline never comes: the timer aborts).  When the loop condition
\* fails the function falls off its end and resolves with undefined.
\* h is the caller's history so far.
SendFetch(c, a, h, lats) ==
    /\ attempt' = [attempt EXCEPT ![c] = a]
    /\ IF LoopContinues(a)
       THEN /\ pc' = [pc EXCEPT ![c] = "fetch"]
            /\ timer' = [timer EXCEPT ![c] = AbortDeadline(now)]
            /\ \E lat \in lats : wakeAt' = [wakeAt EXCEPT ![c] = now + lat]
            /\ result' = [result EXCEPT ![c] = "none"]
            /\ hist' = [hist EXCEPT ![c] = [h EXCEPT !.sent = @ + 1, !.sentAt = now]]
       ELSE /\ pc' = [pc EXCEPT ![c] = "settled"]
            /\ result' = [result EXCEPT ![c] = "undefined"]
            /\ hist' = [hist EXCEPT ![c] = h]
            /\ UNCHANGED <<timer, wakeAt>>

\* ------------------------------------------------------------------------
\* waitForBudget
\* ------------------------------------------------------------------------
\* Another caller's check or append happened: every caller asleep between its
\* own check and its append has had the two separated.
MarkOthers(c, what) ==
    [d \in Callers |->
        IF d = c THEN "clean"
        ELSE IF pc[d] = "gapSleep" /\ dirty[d] # "appended" THEN what
        ELSE dirty[d]]

\* The grant history keeps the last two grants.
LastTwo(h, g) == IF Len(h) < 2 THEN Append(h, g) ELSE <<h[2], g>>

\* The grant of waitForBudget (lines 77-80) and the return into postInfo,
\* whose loop variable is a.  log is the ledger the entry is pushed on, used
\* the consumed() value the caller's budget check read.
Grant(c, type, a, h, log, used, lats) ==
    /\ lastRequestTs' = now
    /\ weightLog' = Append(log, [weight |-> getWeight(type), ts |-> now])
    /\ stored' = SaveSlot(stored, weightLog')
    /\ grantLog' = LastTwo(grantLog,
          [ts |-> now, weight |-> getWeight(type), seen |-> used,
           actual |-> consumedWeight(log, now), interleaved |-> dirty[c]])
    /\ seenUsed' = [seenUsed EXCEPT ![c] = 0]
    /\ dirty' = MarkOthers(c, "appended")
    /\ SendFetch(c, a + 1, [h EXCEPT !.grants = @ + 1], lats)

\* One iteration of waitForBudget's loop, from `consumedWeight()` to the
\* first await or the return.
BudgetIteration(c, type, a, h, lats) ==
    LET log == PruneLog(weightLog, now)
        used == SumWeights(log)
        gap == GapSleep(now, lastRequestTs)
    IN  /\ checkedAt' = now
        /\ IF BudgetOk(used, getWeight(type))
          THEN IF gap = 0
               THEN Grant(c, type, a, h, log, used, lats)
               ELSE /\ weightLog' = log
                    /\ pc' = [pc EXCEPT ![c] = "gapSleep"]
                    /\ wakeAt' = [wakeAt EXCEPT ![c] = now + gap]
                    /\ seenUsed' = [seenUsed EXCEPT ![c] = used]
                    /\ dirty' = MarkOthers(c, "checked")
                    /\ attempt' = [attempt EXCEPT ![c] = a]
                    /\ result' = [result EXCEPT ![c] = "none"]
                    /\ hist' = [hist EXCEPT ![c] = h]
                    /\ UNCHANGED <<lastRequestTs, stored, grantLog, timer>>
          ELSE /\ weightLog' = log
               /\ pc' = [pc EXCEPT ![c] = "pollSleep"]
               /\ wakeAt' = [wakeAt EXCEPT ![c] = now + PollSleep(log, now)]
               /\ seenUsed' = [seenUsed EXCEPT ![c] = 0]
               /\ dirty' = MarkOthers(c, "checked")
               /\ attempt' = [attempt EXCEPT ![c] = a]
               /\ result' = [result EXCEPT ![c] = "none"]
               /\ hist' = [hist EXCEPT ![c] = h]
               /\ UNCHANGED <<lastRequestTs, stored, grantLog, timer>>

\* A caller calls postInfo(body): the call runs synchronously into
\* waitForBudget's first iteration.
StartPostInfo(c, types, lats, maxCalls) ==
    /\ pc[c] \in {"idle", "settled"}
    /\ calls < maxCalls
    \* callers are interchangeable: they make their first calls in order
    /\ \A d \in Callers : d < c => pc[d] # "idle"
    /\ \E type \in types :
          /\ reqType' = [reqType EXCEPT ![c] = type]
          /\ BudgetIteration(c, type, -1, NoHist, lats)
    /\ calls' = calls + 1
    /\ UNCHANGED <<now, resets, n429, walkVars, gate, lib, procs, posn>>

\* The gap timer fires: the entry is pushed without a second budget check.
GapWake(c, lats) ==
    /\ pc[c] = "gapSleep"
    /\ wakeAt[c] = now
    /\ Grant(c, reqType[c], attempt[c], hist[c], weightLog, seenUsed[c], lats)
    /\ UNCHANGED <<now, reqType, calls, resets, n429, checkedAt, walkVars, gate, lib, procs, posn>>

\* The poll timer fires: the loop runs again from consumedWeight().
PollWake(c, lats) ==
    /\ pc[c] = "pollSleep"
    /\ wakeAt[c] = now
    /\ BudgetIteration(c, reqType[c], attempt[c], hist[c], lats)
    /\ UNCHANGED <<now, reqType, calls, resets, n429, walkVars, gate, lib, procs, posn>>

\* ------------------------------------------------------------------------
\* postInfo: the answer
\* ------------------------------------------------------------------------
\* What one fetch can end with: a 2xx answer, a 429 answer, another non-2xx
\* answer, a rejection (a transport error) whose message does not hold "429",
\* and one whose message does.
Outcomes == {"ok", "429", "httpError", "netError", "netError429"}

\* postInfo settles: the finally block has cleared the timer.
Settle(c, how, h) ==
    /\ pc' = [pc EXCEPT ![c] = "settled"]
    /\ result' = [result EXCEPT ![c] = how]
    /\ timer' = [timer EXCEPT ![c] = 0]
    /\ hist' = [hist EXCEPT ![c] = h]

\* A retry test that lets the last attempt retry as well.
RetryAfter429_Off(a) == a <= maxRetries

\* Whether a 429 answer on attempt a is retried (line 183).
RetryAfter429(a) == a < maxRetries

\* A catch block that retries whatever was thrown.
RetryInCatch_Any(a, has429) == a < maxRetries

\* Whether a thrown error is retried by the catch block (line 199).
RetryInCatch(a, has429) == a < maxRetries /\ has429

\* The statuses of the non-2xx, non-429 answers.
ErrorStatuses == {400, 500, 503}

\* `API error: ${res.status}`.includes("429"): whether the decimal digits of
\* the status hold 429.
MessageHas429(status) ==
    \E k \in {1, 10, 100} : (status \div k) % 1000 = 429

\* A 429 branch that leaves the abort timer armed.
TimerAfter429_Armed(deadline) == deadline

\* The abort timer after the 429 branch's clearTimeout(timer) (line 181): 0
\* stands for a cleared timer.
TimerAfter429(deadline) == 0

\* Whether postInfo calls onRateLimited on a 429 answer on attempt a (line 182).
ResetsOn429(a) == TRUE

\* The caller's history after its fetch ended with outcome o.
Ended(c, o) ==
    [hist[c] EXCEPT !.lastOut = o,
                    !.only429 = @ /\ o = "429",
                    !.t429 = IF o = "429" THEN now ELSE @]

\* The answer of the fetch arrives before the abort timer.
FetchAnswer(c, outcomes, lats, max429) ==
    /\ pc[c] = "fetch"
    /\ wakeAt[c] = now
    /\ wakeAt[c] < timer[c]
    /\ \E o \in outcomes :
          CASE o = "ok" ->
                  /\ Settle(c, "value", Ended(c, o))
                  /\ UNCHANGED <<weightLog, stored, resets, n429, attempt, wakeAt>>
            [] o = "429" ->
                  /\ n429 < max429
                  /\ n429' = n429 + 1
                  /\ IF ResetsOn429(attempt[c])
                     THEN \* onRateLimited()
                          /\ weightLog' = ExhaustedLog(now)
                          /\ stored' = SaveSlot(stored, weightLog')
                          /\ resets' = resets + 1
                     ELSE UNCHANGED <<weightLog, stored, resets>>
                  /\ IF RetryAfter429(attempt[c])
                     THEN /\ pc' = [pc EXCEPT ![c] = "backoff"]
                          /\ wakeAt' = [wakeAt EXCEPT ![c] = now + BackoffDelay(attempt[c])]
                          /\ timer' = [timer EXCEPT ![c] = TimerAfter429(@)]
                          /\ hist' = [hist EXCEPT ![c] = Ended(c, o)]
                          /\ UNCHANGED <<result, attempt>>
                     ELSE /\ Settle(c, "rateLimited", Ended(c, o))
                          /\ UNCHANGED <<attempt, wakeAt>>
            [] o = "httpError" ->
                  \* line 192 throws inside the try: the catch block decides
                  /\ \E st \in ErrorStatuses :
                        LET h == [Ended(c, o) EXCEPT !.status = st]
                        IN  IF RetryInCatch(attempt[c], MessageHas429(st))
                            THEN SendFetch(c, attempt[c] + 1, h, lats)
                            ELSE /\ Settle(c, "apiError", h)
                                 /\ UNCHANGED <<attempt, wakeAt>>
                  /\ UNCHANGED <<weightLog, stored, resets, n429>>
            [] o = "netError" ->
                  /\ Settle(c, "networkError", Ended(c, o))
                  /\ UNCHANGED <<weightLog, stored, resets, n429, attempt, wakeAt>>
            [] o = "netError429" ->
                  /\ IF RetryInCatch(attempt[c], TRUE)
                     THEN SendFetch(c, attempt[c] + 1, Ended(c, o), lats)
                     ELSE /\ Settle(c, "networkError", Ended(c, o))
                          /\ UNCHANGED <<attempt, wakeAt>>
                  /\ UNCHANGED <<weightLog, stored, resets, n429>>
    /\ UNCHANGED <<now, lastRequestTs, reqType, calls, seenUsed, dirty, grantLog,
                   checkedAt, walkVars, gate, lib, procs, posn>>

\* The abort timer fires first: fetch rejects with AbortError, postInfo
\* throws the timeout error.
FetchAbort(c) ==
    /\ pc[c] = "fetch"
    /\ timer[c] = now
    /\ Settle(c, "timeout", Ended(c, "abort"))
    /\ UNCHANGED <<now, weightLog, lastRequestTs, stored, reqType, attempt, wakeAt,
                   calls, seenUsed, dirty, grantLog, resets, n429, checkedAt,
                   walkVars, gate, lib, procs, posn>>

\* The backoff sleep ends: postInfo re-enters waitForBudget.
BackoffWake(c, lats) ==
    /\ pc[c] = "backoff"
    /\ wakeAt[c] = now
    /\ BudgetIteration(c, reqType[c], attempt[c],
                       [hist[c] EXCEPT !.slept = now - hist[c].t429], lats)
    /\ UNCHANGED <<now, reqType, calls, resets, n429, walkVars, gate, lib, procs, posn>>

\* ------------------------------------------------------------------------
\* The clock
\* ------------------------------------------------------------------------
Deadline(c) ==
    CASE pc[c] \in {"gapSleep", "pollSleep", "backoff"} -> wakeAt[c]
      [] pc[c] = "fetch" -> Min(wakeAt[c], timer[c])
      [] OTHER -> 0

Waiting == {c \in Callers : pc[c] \in {"gapSleep", "pollSleep", "backoff", "fetch"}}

\* Time passes up to the earliest pending deadline.
Advance ==
    /\ Waiting # {}
    /\ \A c \in Waiting : Deadline(c) > now
    /\ \E c \in Waiting :
          /\ \A d \in Waiting : Deadline(c) <= Deadline(d)
          /\ now' = Deadline(c)
    /\ UNCHANGED <<weightLog, lastRequestTs, stored, pc, reqType, attempt, wakeAt,
                   timer, result, calls, seenUsed, dirty, grantLog, resets, n429,
                   hist, checkedAt, walkVars, gate, lib, procs, posn>>

\* ------------------------------------------------------------------------
\* The page: NumCallers callers of postInfo sharing one ledger
\* ------------------------------------------------------------------------
Init == InitWith(StoredSlots) /\ NoWalk /\ gate = NoGate /\ lib = NoLib /\ procs = NoProcs /\ posn = NoPositions

Next ==
    \/ \E c \in Callers : StartPostInfo(c, CallTypes, Latencies, MaxCalls)
    \/ \E c \in Callers : GapWake(c, Latencies)
    \/ \E c \in Callers : PollWake(c, Latencies)
    \/ \E c \in Callers : FetchAnswer(c, {"ok", "429"}, Latencies, Max429)
    \/ \E c \in Callers : BackoffWake(c, Latencies)
    \/ Advance

Spec == Init /\ [][Next]_vars

\* ------------------------------------------------------------------------
\* One postInfo call at a time, against every kind of answer
\* ------------------------------------------------------------------------
InitPost == InitWith({[kind |-> "absent", log |-> <<>>]}) /\ NoWalk /\ gate = NoGate /\ lib = NoLib /\ procs = NoProcs /\ posn = NoPositions

PostLatencies == {LatFast, DEFAULT_TIMEOUT_MS}

NextPost ==
    \/ StartPostInfo(1, CallTypes, PostLatencies, MaxPostCalls)
    \/ GapWake(1, PostLatencies)
    \/ PollWake(1, PostLatencies)
    \/ FetchAnswer(1, Outcomes, PostLatencies, MaxPost429)
    \/ FetchAbort(1)
    \/ BackoffWake(1, PostLatencies)
    \/ Advance

SpecPost == InitPost /\ [][NextPost]_vars

\* ------------------------------------------------------------------------
\* postInfo called with every kind of body.type
\* ------------------------------------------------------------------------
\* The light types, the other types the facade sends, a type the table does
\* not know, and "undefined" for a body without a type.
AllTypes ==
    LIGHT_WEIGHT_TYPES
        \cup {"userFillsByTime", "userFills", "portfolio", "someOtherType", "undefined"}

NextTypes ==
    \/ StartPostInfo(1, AllTypes, Latencies, MaxPostCalls)
    \/ GapWake(1, Latencies)
    \/ FetchAnswer(1, {"ok", "httpError"}, Latencies, MaxPost429)
    \/ Advance

SpecTypes == InitPost /\ [][NextTypes]_vars

\* ------------------------------------------------------------------------
\* The ledger alone: consumedWeight() on a ledger loaded from the slot
\* ------------------------------------------------------------------------
\* Ledgers an earlier session left in the slot, whose entries reach the end
\* of the window while this page runs: one entry, or two MIN_REQUEST_GAP_MS
\* apart, the first at most MaxSkew ms inside the window at page load.
EdgeLogs ==
    {<<>>}
    \cup {<<[weight |-> w, ts |-> PageLoadTs - WEIGHT_WINDOW_MS + d]>> :
            w \in {LIGHT_WEIGHT, HEAVY_WEIGHT, WEIGHT_LIMIT}, d \in 0 .. MaxSkew}
    \cup {<<[weight |-> w, ts |-> PageLoadTs - WEIGHT_WINDOW_MS + d],
            [weight |-> v, ts |-> PageLoadTs - WEIGHT_WINDOW_MS + d + MIN_REQUEST_GAP_MS]>> :
            w \in {LIGHT_WEIGHT, HEAVY_WEIGHT}, v \in {LIGHT_WEIGHT, HEAVY_WEIGHT},
            d \in 0 .. MaxSkew}

InitLedger ==
    /\ InitWith({[kind |-> "entries", log |-> l] : l \in EdgeLogs})
    /\ NoWalk
    /\ gate = NoGate /\ lib = NoLib /\ procs = NoProcs /\ posn = NoPositions

\* A call of consumedWeight() by caller c: the ledger is pruned in memory
\* (not saved) and the sum of what is left is returned.
ConsumedWeightCall(c) ==
    /\ weightLog' = PruneLog(weightLog, now)
    /\ seenUsed' = [seenUsed EXCEPT ![c] = SumWeights(weightLog')]
    /\ checkedAt' = now
    /\ UNCHANGED <<now, lastRequestTs, stored, pc, reqType, attempt, wakeAt, timer,
                   result, calls, dirty, grantLog, resets, n429, hist, walkVars, gate, lib, procs, posn>>

\* A millisecond passes with nothing pending.
Tick ==
    /\ now < PageLoadTs + MaxTicks
    /\ now' = now + 1
    /\ UNCHANGED <<weightLog, lastRequestTs, stored, pc, reqType, attempt, wakeAt,
                   timer, result, calls, seenUsed, dirty, grantLog, resets, n429,
                   hist, checkedAt, walkVars, gate, lib, procs, posn>>

NextLedger ==
    \/ ConsumedWeightCall(1)
    \/ Tick

SpecLedger == InitLedger /\ [][NextLedger]_vars

\* ------------------------------------------------------------------------
\* waitForBudget(weight) alone, for any weight
\* ------------------------------------------------------------------------
\* The weights the call is made with.  Those the limit admits: the smallest,
\* the two of getWeight, and the whole limit; and two above the limit.
FitWeights == {1, LIGHT_WEIGHT, HEAVY_WEIGHT, WEIGHT_LIMIT}
OverWeights == {WEIGHT_LIMIT + 1, 2 * WEIGHT_LIMIT}

\* What an earlier session left in the slot: nothing, or a few grants.
GateSlots ==
    {[kind |-> "absent", log |-> <<>>],
     [kind |-> "entries", log |-> PriorRun(MaxGatePrior, PageLoadTs)]}

\* Time that passes before the call is made: the first and the last backoff
\* of postInfo, around half a window, and a whole window.
StartDelays ==
    {BackoffDelay(0), BackoffDelay(2),
     WEIGHT_WINDOW_MS \div 2 - 2 * MIN_REQUEST_GAP_MS, WEIGHT_WINDOW_MS \div 2,
     WEIGHT_WINDOW_MS \div 2 + 1, WEIGHT_WINDOW_MS}

postVars == <<pc, reqType, attempt, wakeAt, timer, result, calls, seenUsed, dirty,
              grantLog, resets, n429, hist>>

InitGate == InitWith(GateSlots) /\ NoWalk /\ gate = NoGate /\ lib = NoLib /\ procs = NoProcs /\ posn = NoPositions

\* Lines 77-80: the grant and the return.
GateGrant(g, log) ==
    /\ lastRequestTs' = now
    /\ weightLog' = Append(log, [weight |-> g.weight, ts |-> now])
    /\ stored' = SaveSlot(stored, weightLog')
    /\ gate' = [g EXCEPT !.pc = "granted", !.grantedAt = now]

\* One iteration of the loop of waitForBudget(g.weight), from
\* consumedWeight() to the first await or the return.
GateIteration(g) ==
    LET log == PruneLog(weightLog, now)
        used == SumWeights(log)
        gap == GapSleep(now, lastRequestTs)
    IN  /\ checkedAt' = now
        /\ IF BudgetOk(used, g.weight)
           THEN IF gap = 0
                THEN GateGrant(g, log)
                ELSE /\ weightLog' = log
                     /\ gate' = [g EXCEPT !.pc = "gapSleep", !.wakeAt = now + gap]
                     /\ UNCHANGED <<lastRequestTs, stored>>
           ELSE /\ weightLog' = log
                /\ gate' = [g EXCEPT !.pc = "pollSleep",
                                     !.wakeAt = now + PollSleep(log, now),
                                     !.polls = @ + 1]
                /\ UNCHANGED <<lastRequestTs, stored>>

\* waitForBudget(weight) is called.
WaitForBudgetCall(weights) ==
    /\ gate.pc = "idle"
    /\ \E w \in weights : GateIteration([gate EXCEPT !.weight = w, !.startedAt = now])
    /\ UNCHANGED <<now, postVars, walkVars, lib, procs, posn>>

\* The gap timer fires: lines 77-80 run without a second budget check.
GateGapWake ==
    /\ gate.pc = "gapSleep"
    /\ gate.wakeAt = now
    /\ GateGrant(gate, weightLog)
    /\ UNCHANGED <<now, checkedAt, postVars, walkVars, lib, procs, posn>>

\* The poll timer fires: the loop runs again.
GatePollWake ==
    /\ gate.pc = "pollSleep"
    /\ gate.wakeAt = now
    /\ GateIteration(gate)
    /\ UNCHANGED <<now, postVars, walkVars, lib, procs, posn>>

\* Every entry leaves the window one window after it was written, and the
\* poll loop looks at the ledger at least every POLL_CEILING_MS: the time by
\* which a call held up by the loaded ledger, MaxOthers admissions and
\* MaxResets resets has been granted.
GateHorizon ==
    PageLoadTs + WEIGHT_WINDOW_MS
        + (1 + MaxOthers + MaxResets) * (WEIGHT_WINDOW_MS + POLL_CEILING_MS)

\* How long a call that is never granted is followed.
OverHorizon == PageLoadTs + WEIGHT_WINDOW_MS + MaxPolls * POLL_CEILING_MS

\* Time passes up to the deadline of the call's timer (the clock of the
\* model stops at horizon).
GateAdvance(horizon) ==
    /\ gate.pc \in {"gapSleep", "pollSleep"}
    /\ gate.wakeAt > now
    /\ gate.wakeAt <= horizon
    /\ now' = gate.wakeAt
    /\ UNCHANGED <<weightLog, lastRequestTs, stored, checkedAt, postVars, walkVars, gate, lib, procs, posn>>

\* Time passes before the call is made.
GateIdle(delays) ==
    /\ gate.pc = "idle"
    /\ ~gate.idled
    /\ \E d \in delays : now' = now + d
    /\ gate' = [gate EXCEPT !.idled = TRUE]
    /\ UNCHANGED <<weightLog, lastRequestTs, stored, checkedAt, postVars, walkVars, lib, procs, posn>>

\* A limiter that serves its callers in the order of their arrival.
AdmitsPast_Fifo(asleep) == ~asleep

\* Whether a caller whose budget test passes is granted while an earlier
\* caller is asleep in the poll loop: waitForBudget keeps no queue, the
\* test of line 70 looks at the ledger only.
AdmitsPast(asleep) == TRUE

\* Another caller of waitForBudget is granted at this instant (its check
\* passes and no gap is left to sleep).
OtherAdmission ==
    /\ gate.pc # "granted"
    /\ AdmitsPast(gate.pc = "pollSleep")
    /\ gate.others < MaxOthers
    /\ GapSleep(now, lastRequestTs) = 0
    /\ \E w \in {HEAVY_WEIGHT} :
          LET log == PruneLog(weightLog, now)
          IN  /\ BudgetOk(SumWeights(log), w)
              /\ weightLog' = Append(log, [weight |-> w, ts |-> now])
    /\ lastRequestTs' = now
    /\ stored' = SaveSlot(stored, weightLog')
    /\ checkedAt' = now
    /\ gate' = [gate EXCEPT !.others = @ + 1, !.touched = TRUE,
                             !.overlap = @ \/ gate.pc \in {"gapSleep", "pollSleep"},
                             !.overtaken = @ \/ gate.pc = "pollSleep"]
    /\ UNCHANGED <<now, postVars, walkVars, lib, procs, posn>>

\* Another caller's fetch is answered 429 at this instant: onRateLimited().
OtherRateLimited ==
    /\ gate.pc # "granted"
    /\ gate.resets < MaxResets
    /\ weightLog' = ExhaustedLog(now)
    /\ stored' = SaveSlot(stored, weightLog')
    /\ gate' = [gate EXCEPT !.resets = @ + 1, !.resetAt = now, !.touched = FALSE,
                             !.overlap = @ \/ gate.pc \in {"gapSleep", "pollSleep"}]
    /\ UNCHANGED <<now, lastRequestTs, checkedAt, postVars, walkVars, lib, procs, posn>>

NextGate ==
    \/ WaitForBudgetCall(FitWeights)
    \/ GateGapWake
    \/ GatePollWake
    \/ GateAdvance(GateHorizon)
    \/ GateIdle(StartDelays)
    \/ OtherAdmission
    \/ OtherRateLimited

SpecGate == InitGate /\ [][NextGate]_vars

\* The same call where time keeps advancing and timers fire.
NextLive ==
    \/ WaitForBudgetCall({HEAVY_WEIGHT, WEIGHT_LIMIT})
    \/ GateGapWake
    \/ GatePollWake
    \/ GateAdvance(GateHorizon)
    \/ GateIdle({BackoffDelay(0), WEIGHT_WINDOW_MS \div 2})
    \/ OtherAdmission
    \/ OtherRateLimited

SpecGateFair ==
    /\ InitGate
    /\ [][NextLive]_vars
    /\ WF_vars(GateAdvance(GateHorizon))
    /\ WF_vars(GateGapWake)
    /\ WF_vars(GatePollWake)

\* The call is made with a weight above the limit.
NextOversize ==
    \/ WaitForBudgetCall(OverWeights)
    \/ GatePollWake
    \/ GateAdvance(OverHorizon)
    \/ GateIdle(StartDelays)
    \/ OtherAdmission
    \/ OtherRateLimited

SpecOversize == InitGate /\ [][NextOversize]_vars

\* ------------------------------------------------------------------------
\* The limiter of src/lib/hyperliquid.ts under a back-to-back sequence
\* ------------------------------------------------------------------------
\* The sequences: plan.heavy heavy calls, then plan.light light calls, then
\* heavy calls, one every plan.step ms, until a call that had to wait has
\* been granted.
LibPlans ==
    {[heavy |-> h, light |-> l, step |-> st] :
        h \in {0, SeqHeavy, LIB_WEIGHT_LIMIT \div HEAVY_WEIGHT - 1,
                LIB_WEIGHT_LIMIT \div HEAVY_WEIGHT},
        l \in {0, SeqLight},
        st \in 0 .. MaxStep}

InitLib ==
    /\ InitWith({[kind |-> "absent", log |-> <<>>]})
    /\ NoWalk
    /\ gate = NoGate
    /\ \E p \in LibPlans : lib = [NoLib EXCEPT !.plan = p]
    /\ procs = NoProcs /\ posn = NoPositions

\* The weight of the next call of the sequence.
LibNextWeight(l) ==
    IF l.made < l.plan.heavy THEN HEAVY_WEIGHT
    ELSE IF l.made < l.plan.heavy + l.plan.light THEN LIGHT_WEIGHT
    ELSE HEAVY_WEIGHT

\* One iteration of the loop of waitForBudget(l.weight) (lines 32-45).
LibIteration(l) ==
    LET log == LibPrune(weightLog, now)
        used == SumWeights(log)
    IN  IF LibBudgetOk(used, l.weight)
        THEN /\ weightLog' = Append(log, [weight |-> l.weight, ts |-> now])
             /\ lib' = [l EXCEPT !.pc = IF l.polls > 0 THEN "done" ELSE "idle",
                                 !.made = @ + 1,
                                 !.grantedAt = now]
             \* the next call of the sequence comes plan.step ms later
             /\ now' = IF l.polls > 0 THEN now ELSE now + l.plan.step
        ELSE /\ weightLog' = log
             /\ lib' = [l EXCEPT !.pc = "pollSleep",
                                 !.wakeAt = now + LibPollSleep(log, now),
                                 !.polls = @ + 1,
                                 !.oldest = IF l.polls = 0 THEN log[1].ts ELSE @]
             /\ now' = now

\* The caller awaits waitForBudget(weight) for the next call of its sequence.
LibAdmit ==
    /\ lib.pc = "idle"
    /\ LET w == LibNextWeight(lib)
       IN  LibIteration([lib EXCEPT !.weight = w, !.asked = @ + w])
    /\ UNCHANGED <<lastRequestTs, stored, checkedAt, postVars, walkVars, gate, procs, posn>>

\* The poll timer fires.
LibPollWake ==
    /\ lib.pc = "pollSleep"
    /\ lib.wakeAt = now
    /\ LibIteration(lib)
    /\ UNCHANGED <<lastRequestTs, stored, checkedAt, postVars, walkVars, gate, procs, posn>>

\* Time passes up to the poll timer's deadline.
LibAdvance ==
    /\ lib.pc = "pollSleep"
    /\ lib.wakeAt > now
    /\ now' = lib.wakeAt
    /\ UNCHANGED <<weightLog, lastRequestTs, stored, checkedAt, postVars, walkVars,
                   gate, lib, procs, posn>>

NextLib ==
    \/ LibAdmit
    \/ LibPollWake
    \/ LibAdvance

SpecLib == InitLib /\ [][NextLib]_vars

\* ------------------------------------------------------------------------
\* getAllUserFills against a fill server
\* ------------------------------------------------------------------------
\* The feed holds fills 1 .. n in time order; fill i (its tid) has the time
\* below: g consecutive fills share one time value.
FeedTime(f, i) == 1 + ((i - 1 + f.shift) \div f.g)

\* The fills (tids) of the feed with time in [startTime, endTime], in order.
WindowFills(f, startTime, endTime) ==
    SelectSeq([i \in 1 .. f.n |-> i],
              LAMBDA i : /\ FeedTime(f, i) >= startTime
                         /\ (endTime = NoEnd \/ FeedTime(f, i) <= endTime))

FirstN(q, k) == SubSeq(q, 1, Min(k, Len(q)))

\* The page the server answers a userFillsByTime request with: the oldest
\* fills of the window, at most the page cap; a server in mode "stuck" pays
\* no attention to the window and answers with the head of its feed.
ServerPage(f, req) ==
    IF f.mode = "honest"
    THEN FirstN(WindowFills(f, req.startTime, req.endTime), FILLS_PAGE_LIMIT)
    ELSE FirstN([i \in 1 .. f.n |-> i], FILLS_PAGE_LIMIT)

\* The body getUserFills builds (lines 216-224).
FillsRequest(user, startTime, endTime) ==
    [user |-> user, startTime |-> startTime, endTime |-> endTime]

\* A loop condition that admits one page too many.
MorePages_Inclusive(p, maxPages) == p <= maxPages

\* The condition of getAllUserFills' for loop.
MorePages(p, maxPages) == p < maxPages

\* The two breaks of the loop body (lines 244 and 248).
EmptyPage(len) == len = 0
\* A short-page test that takes a page one short of the cap for a full one.
ShortPage_OffByOne(len) == len < FILLS_PAGE_LIMIT - 1
ShortPage(len) == len < FILLS_PAGE_LIMIT

\* A cursor that restarts at the last item's own time.
NextStart_Same(lastTime) == lastTime

\* The cursor after a full page (lines 250-251).
NextStart(lastTime) == lastTime + 1

FeedSizes ==
    {0, 1, FILLS_PAGE_LIMIT - 1, FILLS_PAGE_LIMIT, FILLS_PAGE_LIMIT + 1,
     2 * FILLS_PAGE_LIMIT + 1500, MaxPages * FILLS_PAGE_LIMIT}

Feeds ==
    {[n |-> n, g |-> g, shift |-> sh, mode |-> m] :
        n \in FeedSizes, g \in 1 .. MaxGroup, sh \in 0 .. MaxGroup - 1,
        m \in {"honest", "stuck"}}

Walks ==
    {[user |-> "0xabc", startTime |-> st, endTime |-> en, maxPages |-> mp] :
        st \in {0, LateStart}, en \in {NoEnd, EndCut}, mp \in 0 .. MaxPages}

InitWalk ==
    /\ InitWith({[kind |-> "absent", log |-> <<>>]})
    /\ gate = NoGate /\ lib = NoLib /\ procs = NoProcs /\ posn = NoPositions
    /\ feed \in {f \in Feeds : f.shift < f.g}
    /\ walk \in Walks
    /\ wpc = "idle"
    /\ page = 0
    /\ currentStart = 0
    /\ allFills = <<>>
    /\ reqs = <<>>
    /\ pages = <<>>
    /\ walkResult = Pending
    /\ raised = "none"

\* The loop head with loop variable p and cursor start: the call returns, or
\* sleeps before a later page, or sends the first page's request.
LoopHead(p, start) ==
    /\ page' = p
    /\ currentStart' = start
    /\ IF MorePages(p, walk.maxPages)
       THEN /\ walkResult' = walkResult
            /\ IF p > 0
               THEN /\ wpc' = "sleep"
                    /\ reqs' = reqs
               ELSE /\ wpc' = "fetch"
                    /\ reqs' = Append(reqs, FillsRequest(walk.user, start, walk.endTime))
       ELSE /\ wpc' = "returned"
            /\ walkResult' = Resolved(allFills')
            /\ reqs' = reqs

\* getAllUserFills(user, startTime, endTime, maxPages) is called.
WalkStart ==
    /\ wpc = "idle"
    /\ allFills' = <<>>
    /\ LoopHead(0, walk.startTime)
    /\ UNCHANGED <<limVars, gate, lib, procs, posn, feed, walk, pages, raised>>

\* sleep(500) between pages is over: the next page is requested.
WalkSleepDone ==
    /\ wpc = "sleep"
    /\ wpc' = "fetch"
    /\ reqs' = Append(reqs, FillsRequest(walk.user, currentStart, walk.endTime))
    /\ UNCHANGED <<limVars, gate, lib, procs, posn, feed, walk, page, currentStart, allFills, pages,
                   walkResult, raised>>

\* getUserFills resolves with a page.
WalkPage ==
    /\ wpc = "fetch"
    /\ LET fills == ServerPage(feed, reqs[Len(reqs)])
           lastTime == FeedTime(feed, fills[Len(fills)])
       IN  IF EmptyPage(Len(fills))
           THEN /\ wpc' = "returned"
                /\ walkResult' = Resolved(allFills)
                /\ pages' = Append(pages, [size |-> 0, lastTime |-> 0])
                /\ UNCHANGED <<page, currentStart, allFills, reqs>>
           ELSE /\ allFills' = allFills \o fills
                /\ pages' = Append(pages, [size |-> Len(fills), lastTime |-> lastTime])
                /\ IF ShortPage(Len(fills))
                   THEN /\ wpc' = "returned"
                        /\ walkResult' = Resolved(allFills')
                        /\ UNCHANGED <<page, currentStart, reqs>>
                   ELSE LoopHead(page + 1, NextStart(lastTime))
    /\ UNCHANGED <<limVars, gate, lib, procs, posn, feed, walk, raised>>

\* The errors a postInfo call rejects with.
PostErrors == {"rateLimited", "apiError", "timeout", "networkError"}

\* A swallowed failure: the walk ends with what it has.
WalkRejection_Partial(err, acc) == Resolved(acc)

\* What getAllUserFills settles with when a page call rejects with err while
\* the accumulator holds acc: no try/catch is around line 243, so the error
\* leaves the function and the accumulator with it.
WalkRejection(err, acc) == Rejected(err)

\* getUserFills rejects with the error of its postInfo call.
WalkFail ==
    /\ wpc = "fetch"
    /\ wpc' = "failed"
    /\ \E err \in PostErrors :
          /\ raised' = err
          /\ walkResult' = WalkRejection(err, allFills)
    /\ UNCHANGED <<limVars, gate, lib, procs, posn, feed, walk, page, currentStart, allFills, reqs, pages>>

NextWalk ==
    \/ WalkStart
    \/ WalkSleepDone
    \/ WalkPage
    \/ WalkFail

SpecWalk == InitWalk /\ [][NextWalk]_vars

\* ------------------------------------------------------------------------
\* Claims about the budget gate under concurrent callers (Spec)
\* ------------------------------------------------------------------------
\* Sum of the weights of the ledger entries with timestamp in [t - window, t].
WindowSum(log, t) ==
    SumWeights(SelectSeq(log, LAMBDA e : e.ts >= t - WEIGHT_WINDOW_MS /\ e.ts <= t))

\* C1: budget never exceeded in one process.  For any sequence of admissions
\* (no 429 reset has touched the ledger), concurrent callers included, the
\* weights of the ledger entries inside the window sum to at most
\* WEIGHT_LIMIT at every instant.
C1_BudgetNeverExceeded ==
    resets = 0 => WindowSum(weightLog, now) <= WEIGHT_LIMIT

\* C2: admission is serialized.  No caller appends its entry after another
\* caller's append came between its budget check and its own append.
C2_NoLostUpdate ==
    \A i \in 1 .. Len(grantLog) : grantLog[i].interleaved # "appended"

\* C3: minimum spacing.  Two consecutive grants are recorded at least
\* MIN_REQUEST_GAP_MS apart.
C3_MinSpacing ==
    Len(grantLog) = 2 => grantLog[2].ts - grantLog[1].ts >= MIN_REQUEST_GAP_MS

\* ------------------------------------------------------------------------
\* Claims about one postInfo call (SpecPost)
\* ------------------------------------------------------------------------
\* C4: retry ceiling.  While every fetch of a postInfo call has been answered
\* 429, the call has sent at most maxRetries + 1 fetches and has returned no
\* value; once settled it has sent exactly maxRetries + 1 and failed with the
\* rate-limited error.
C4_RetryCeiling ==
    \A c \in Callers :
        hist[c].only429 =>
            /\ hist[c].sent <= maxRetries + 1
            /\ result[c] \notin {"value", "undefined"}
            /\ pc[c] = "settled" =>
                  result[c] = "rateLimited" /\ hist[c].sent = maxRetries + 1

C4_Witness ==
    \E c \in Callers :
        /\ pc[c] = "settled" /\ result[c] = "rateLimited"
        /\ hist[c].only429 /\ hist[c].sent = 4

\* C5: 429 handling order.  Every 429 answer, the final one included, has run
\* onRateLimited; and a fetch sent after a 429 answer was sent only after the
\* backoff of 2 s, 4 s or 8 s (by retry number) had been slept and, after
\* that sleep, a fresh grant had been obtained from waitForBudget.
C5_429Order ==
    /\ resets = n429
    /\ \A c \in Callers :
          pc[c] = "fetch" /\ hist[c].lastOut = "429" =>
              /\ attempt[c] \in 1 .. 3
              /\ hist[c].slept = <<2000, 4000, 8000>>[attempt[c]]
              /\ grantLog # <<>>
              /\ grantLog[Len(grantLog)].ts >= hist[c].t429 + hist[c].slept
              /\ grantLog[Len(grantLog)].ts <= now

C5_Witness ==
    \E c \in Callers :
        pc[c] = "fetch" /\ hist[c].lastOut = "429" /\ attempt[c] = 3 /\ resets = 3

\* ------------------------------------------------------------------------
\* Claims about the ledger (SpecLedger)
\* ------------------------------------------------------------------------
\* The entries of the loaded slot a consumedWeight() call at time t leaves.
KeptUntil(t, inclusive) ==
    SelectSeq(stored.log,
              LAMBDA e : IF inclusive THEN t <= e.ts + WEIGHT_WINDOW_MS
                         ELSE t < e.ts + WEIGHT_WINDOW_MS)

\* C6 as claimed: window pruning boundary.  consumed() called at now leaves
\* out an entry with timestamp t when now >= t + window and counts it when
\* now < t + window.
C6_PruneAtWindowEnd ==
    checkedAt = now =>
        /\ weightLog = KeptUntil(now, FALSE)
        /\ seenUsed[1] = SumWeights(KeptUntil(now, FALSE))

\* C6 as amended: consumed() called at now leaves out an entry with
\* timestamp t when now > t + window and counts it when now <= t + window.
C6_PruneAfterWindowEnd ==
    checkedAt = now =>
        /\ weightLog = KeptUntil(now, TRUE)
        /\ seenUsed[1] = SumWeights(KeptUntil(now, TRUE))

\* consumed() was called exactly at t + window of an entry and counted it, and
\* (another state) one millisecond later and left it out.
C6_Witness ==
    /\ checkedAt = now
    /\ \E i \in 1 .. Len(stored.log) :
          /\ stored.log[i].ts + WEIGHT_WINDOW_MS = now
          /\ weightLog # <<>>
          /\ weightLog[1] = stored.log[i]
          /\ seenUsed[1] >= stored.log[i].weight

\* ------------------------------------------------------------------------
\* Claims about getAllUserFills (SpecWalk)
\* ------------------------------------------------------------------------
RECURSIVE SumSizes(_)
SumSizes(ps) == IF ps = <<>> THEN 0 ELSE Head(ps).size + SumSizes(Tail(ps))

\* C7: pagination completeness.  When the fills of the window fit in
\* maxPages pages and every page call succeeded, the call returns every fill
\* of the window in feed order, whatever time values the fills share.
C7_Complete ==
    (/\ wpc = "returned"
     /\ feed.mode = "honest"
     /\ Len(WindowFills(feed, walk.startTime, walk.endTime))
            <= walk.maxPages * FILLS_PAGE_LIMIT)
    => allFills = WindowFills(feed, walk.startTime, walk.endTime)

\* C8: termination on a short page.  A page shorter than the page cap (an
\* empty one included) is the last page requested: the call has returned,
\* with as many requests as pages and the fills of all the pages; page sizes
\* [cap, cap, k] give 2 * cap + k fills after exactly 3 requests.
C8_StopsAtShortPage ==
    /\ \A k \in 1 .. Len(pages) :
          pages[k].size < FILLS_PAGE_LIMIT =>
              /\ k = Len(pages)
              /\ wpc = "returned"
              /\ Len(reqs) = k
              /\ Len(allFills) = SumSizes(pages)
    /\ (/\ Len(pages) >= 3
        /\ pages[1].size = FILLS_PAGE_LIMIT
        /\ pages[2].size = FILLS_PAGE_LIMIT
        /\ pages[3].size \in 1 .. FILLS_PAGE_LIMIT - 1)
       => /\ wpc = "returned"
          /\ Len(reqs) = 3
          /\ Len(allFills) = 2 * FILLS_PAGE_LIMIT + pages[3].size

C8_Witness ==
    /\ wpc = "returned"
    /\ Len(pages) = 3
    /\ pages[1].size = 2000 /\ pages[2].size = 2000 /\ pages[3].size = 1500
    /\ Len(reqs) = 3
    /\ Len(allFills) = 5500

\* C9: cursor advance.  Every request after the first follows a page of
\* exactly page-cap items and asks for startTime = (time of that page's last
\* item) + 1, with the user and the endTime of the first request.
C9_CursorAdvance ==
    \A i \in 2 .. Len(reqs) :
        /\ pages[i - 1].size = FILLS_PAGE_LIMIT
        /\ reqs[i].startTime = pages[i - 1].lastTime + 1
        /\ reqs[i].user = reqs[1].user
        /\ reqs[i].endTime = reqs[1].endTime

C9_Witness ==
    /\ Len(reqs) = 3
    /\ reqs[1].endTime = EndCut
    /\ reqs[3].startTime = pages[2].lastTime + 1
    /\ reqs[3].startTime > reqs[2].startTime

\* C10: pagination is bounded.  Whatever the server answers, the call sends
\* at most maxPages requests and has returned once maxPages pages have been
\* received; with maxPages = 0 it sends none and returns no fills.
C10_Bounded ==
    /\ Len(reqs) <= walk.maxPages
    /\ Len(pages) = walk.maxPages /\ wpc # "idle" => wpc = "returned"
    /\ walk.maxPages = 0 /\ wpc # "idle" =>
          wpc = "returned" /\ reqs = <<>> /\ allFills = <<>>

C10_Witness ==
    /\ feed.mode = "stuck"
    /\ walk.maxPages = MaxPages
    /\ wpc = "returned"
    /\ Len(reqs) = MaxPages
    /\ \A k \in 1 .. Len(pages) : pages[k].size = FILLS_PAGE_LIMIT

\* C11: pagination failure.  When the call of page k has failed, no request
\* for a later page is ever sent (k requests stand against k - 1 pages), the
\* call has rejected with the error the page call raised, and its outcome
\* holds none of the fills of the pages before k.
C11_FailurePropagates ==
    raised # "none" =>
        /\ wpc = "failed"
        /\ Len(reqs) = Len(pages) + 1
        /\ walkResult.kind = "rejected"
        /\ walkResult.err = raised
        /\ walkResult.fills = <<>>

C11_Witness ==
    /\ wpc = "failed"
    /\ raised = "timeout"
    /\ Len(pages) = 2
    /\ Len(allFills) = 2 * FILLS_PAGE_LIMIT
    /\ walkResult = Rejected("timeout")


\* ------------------------------------------------------------------------
\* Claims about waitForBudget alone (SpecGate)
\* ------------------------------------------------------------------------
\* The call was made with a weight the limit admits.
GateFits == gate.weight \in 1 .. WEIGHT_LIMIT

\* C12: 429 recovery shortens the wait.  When onRateLimited ran at T and
\* nothing else has changed the ledger since, a waitForBudget call with
\* 0 < weight <= WEIGHT_LIMIT is not waiting any more at T + window: it is
\* granted at a time strictly before T + window.
C12_RecoveryBeforeWindow ==
    (gate.resetAt > 0 /\ ~gate.touched /\ GateFits) =>
        /\ gate.pc \in {"pollSleep", "gapSleep"} =>
              now < gate.resetAt + WEIGHT_WINDOW_MS
        /\ (gate.pc = "granted" /\ gate.startedAt < gate.resetAt + WEIGHT_WINDOW_MS) =>
              gate.grantedAt < gate.resetAt + WEIGHT_WINDOW_MS

\* The call was made when onRateLimited had just run, waited in the poll
\* loop, and was granted more than half a window after the reset.
C12_Witness ==
    /\ gate.pc = "granted"
    /\ gate.weight = WEIGHT_LIMIT
    /\ gate.resetAt > 0 /\ ~gate.touched
    /\ gate.startedAt = gate.resetAt
    /\ gate.polls >= 3
    /\ gate.grantedAt > gate.resetAt + WEIGHT_WINDOW_MS \div 2


\* C17: admission liveness.  While time keeps advancing and timers fire, and
\* the other callers' admissions and the 429 resets are finitely many, a
\* waitForBudget call with 0 < weight <= WEIGHT_LIMIT that waits is
\* eventually granted.
C17_EventuallyGranted ==
    (gate.pc \in {"pollSleep", "gapSleep"} /\ GateFits) ~> (gate.pc = "granted")

\* A call for the whole limit was granted after the ledger it found, the
\* other admissions and the resets had held it up.
C17_Witness ==
    /\ gate.pc = "granted"
    /\ gate.weight = WEIGHT_LIMIT
    /\ gate.polls >= 10
    /\ gate.others = MaxOthers
    /\ gate.resets = MaxResets

\* C18: oversized weight.  A waitForBudget call with weight > WEIGHT_LIMIT
\* is never granted and never ends, on an empty ledger either: from its
\* first iteration on it is in the poll sleep, with a wake-up at most
\* POLL_CEILING_MS ahead.
C18_OversizeNeverGranted ==
    (gate.pc # "idle" /\ gate.weight > WEIGHT_LIMIT) =>
        /\ gate.pc = "pollSleep"
        /\ gate.grantedAt = 0
        /\ gate.wakeAt - now \in 0 .. POLL_CEILING_MS
        /\ \A i \in 1 .. Len(weightLog) : weightLog[i].weight # gate.weight

\* The call was made on an empty ledger and has gone through MaxPolls
\* iterations of the loop.
C18_Witness ==
    /\ gate.pc = "pollSleep"
    /\ gate.weight = WEIGHT_LIMIT + 1
    /\ weightLog = <<>>
    /\ gate.others = 0 /\ gate.resets = 0
    /\ gate.polls >= MaxPolls


\* ------------------------------------------------------------------------
\* More claims about one postInfo call (SpecPost)
\* ------------------------------------------------------------------------
\* C13: markExhausted post-state.  Right after onRateLimited has run at time
\* now, the ledger is the one entry {WEIGHT_LIMIT, now - window / 2}, whatever
\* it held before, the slot holds the same one-entry ledger, and consumed()
\* returns WEIGHT_LIMIT.
C13_ExhaustedPostState ==
    \A c \in Callers :
        (hist[c].lastOut = "429" /\ hist[c].t429 = now) =>
            /\ weightLog = <<[weight |-> WEIGHT_LIMIT, ts |-> now - WEIGHT_WINDOW_MS \div 2]>>
            /\ stored = [kind |-> "entries", log |-> weightLog]
            /\ consumedWeight(weightLog, now) = WEIGHT_LIMIT

\* The final 429 of a call has just been answered: the call is rejected and
\* the ledger is the synthetic entry.
C13_Witness ==
    \E c \in Callers :
        /\ hist[c].lastOut = "429" /\ hist[c].t429 = now
        /\ pc[c] = "settled" /\ result[c] = "rateLimited"
        /\ Len(weightLog) = 1 /\ weightLog[1].weight = WEIGHT_LIMIT
        /\ resets = maxRetries + 1

\* The step in which caller c's fetch ends with outcome o.
AnswerStep(c, o) ==
    /\ pc[c] = "fetch"
    /\ now' = now
    /\ pc'[c] # "fetch" \/ hist'[c].sent # hist[c].sent
    /\ hist'[c].lastOut = o

\* C14: non-429 HTTP errors.  The step that receives an answer whose status
\* is neither 2xx nor 429 settles the call with the API error of that status,
\* sends no fetch, starts no sleep, does not run onRateLimited and leaves the
\* ledger and the slot as they were, the call's weight still charged.
C14_HttpErrorFinal ==
    [][\A c \in Callers :
          AnswerStep(c, "httpError") =>
              /\ pc'[c] = "settled"
              /\ result'[c] = "apiError"
              /\ hist'[c].status \notin (200 .. 299) \cup {429}
              /\ hist'[c].sent = hist[c].sent
              /\ timer'[c] = 0
              /\ resets' = resets
              /\ weightLog' = weightLog
              /\ stored' = stored
              /\ \E i \in 1 .. Len(weightLog') :
                    weightLog'[i].weight = getWeight(reqType[c])]_vars

\* A call was answered 429, retried, and then failed with the API error.
C14_Witness ==
    \E c \in Callers :
        /\ pc[c] = "settled" /\ result[c] = "apiError"
        /\ hist[c].lastOut = "httpError" /\ hist[c].status = 503
        /\ hist[c].sent = 2 /\ attempt[c] = 1

\* C15: timeout.  The abort timer of an attempt is due timeoutMs after the
\* attempt's fetch was sent and the fetch never outlives it; an aborted
\* attempt settles the call with the timeout error and is not retried,
\* whichever attempt it is.
C15_TimeoutFinal ==
    \A c \in Callers :
        /\ pc[c] = "fetch" =>
              /\ timer[c] = hist[c].sentAt + DEFAULT_TIMEOUT_MS
              /\ now <= timer[c]
        /\ hist[c].lastOut = "abort" =>
              /\ pc[c] = "settled"
              /\ result[c] = "timeout"
              /\ now = hist[c].sentAt + DEFAULT_TIMEOUT_MS

\* The retry after a 429 answer timed out.
C15_Witness ==
    \E c \in Callers :
        /\ pc[c] = "settled" /\ result[c] = "timeout"
        /\ hist[c].lastOut = "abort"
        /\ attempt[c] >= 1 /\ hist[c].sent >= 2

\* C16: network errors are not retried.  After a fetch was rejected with a
\* transport error, whatever its message, the call is settled with that
\* error and no further fetch is in flight.
C16_NetErrorFinal ==
    \A c \in Callers :
        hist[c].lastOut \in {"netError", "netError429"} =>
            pc[c] = "settled" /\ result[c] = "networkError"

\* ------------------------------------------------------------------------
\* Claims about the weight of a request (SpecTypes)
\* ------------------------------------------------------------------------
\* C20: weight classes.  Every request type has one weight: 2 for the six
\* light types, 20 for every other value, an unknown string and a missing
\* type included; the weight charged for a call is that weight and is at
\* most WEIGHT_LIMIT.
C20_WeightClasses ==
    /\ \A t \in {"clearinghouseState", "allMids", "l2Book", "orderStatus",
                  "spotClearinghouseState", "exchangeStatus"} : getWeight(t) = 2
    /\ \A t \in {"userFillsByTime", "userFills", "portfolio", "someOtherType",
                  "undefined"} : getWeight(t) = 20
    /\ \A c \in Callers :
          hist[c].grants >= 1 =>
              LET w == grantLog[Len(grantLog)].weight
              IN  /\ w = IF reqType[c] \in {"clearinghouseState", "allMids", "l2Book",
                                            "orderStatus", "spotClearinghouseState",
                                            "exchangeStatus"}
                         THEN 2 ELSE 20
                  /\ w <= WEIGHT_LIMIT
                  /\ weightLog[Len(weightLog)].weight = w

\* A call without a type and a call of a light type were both charged.
C20_Witness ==
    /\ Len(grantLog) = 2
    /\ reqType[1] = "undefined"
    /\ hist[1].grants = 1
    /\ grantLog[1].weight = 2
    /\ grantLog[2].weight = 20


\* ------------------------------------------------------------------------
\* Claims about the limiter of src/lib/hyperliquid.ts (SpecLib)
\* ------------------------------------------------------------------------
\* C19: grant without wait below the limit, suspension above it.  From an
\* empty ledger, while the weight asked for so far is at most the limit (the
\* limit itself included) every call has been granted without a suspension
\* and the ledger holds all of it; the call that takes the weight asked for
\* above the limit is suspended; and it is granted only after the ledger's
\* earliest entry has left the window, the ledger then holding at most the
\* limit.
C19_GrantBelowSuspendAbove ==
    /\ lib.asked <= LIB_WEIGHT_LIMIT =>
          /\ lib.polls = 0
          /\ lib.pc = "idle"
          /\ SumWeights(weightLog) = lib.asked
    /\ lib.asked > LIB_WEIGHT_LIMIT =>
          /\ lib.polls >= 1
          /\ lib.asked - lib.weight <= LIB_WEIGHT_LIMIT
          /\ lib.pc \in {"pollSleep", "done"}
    /\ lib.pc = "done" =>
          /\ lib.grantedAt > lib.oldest + WEIGHT_WINDOW_MS
          /\ SumWeights(weightLog) <= LIB_WEIGHT_LIMIT

\* Fifty-five heavy calls were granted without a wait (1100 in all), the
\* light call after them was suspended and has been granted.
C19_Witness ==
    /\ lib.pc = "done"
    /\ lib.plan.heavy = 55
    /\ lib.asked = 1102
    /\ lib.made = 56
    /\ lib.polls >= 1
    /\ lib.grantedAt > PageLoadTs + WEIGHT_WINDOW_MS

\* ------------------------------------------------------------------------
\* C21: the durable slot tracks the ledger.  Whenever a call of
\* consumedWeight() (or a grant, or onRateLimited) has just completed, the
\* sequence held by the slot equals the in-memory ledger.
C21_StoredTracksLedger ==
    checkedAt = now => (stored.kind = "entries" /\ stored.log = weightLog)

\* ------------------------------------------------------------------------
\* Several processes (tabs) on one durable slot
\* ------------------------------------------------------------------------
\* Each process has its own module state; they share the slot and the
\* clock.  The first process is either not started yet, over any kind of
\* slot, or has been running for a while, its ledger persisted: a run of
\* MaxPrior heavy grants, or two grants of which the first leaves the
\* window MIN_REQUEST_GAP_MS after PageLoadTs.
MaxProcAdmits == 2
MaxProcResets == 1
MaxProcTicks == 2

AgedRun ==
    <<[weight |-> HEAVY_WEIGHT, ts |-> PageLoadTs - WEIGHT_WINDOW_MS + MIN_REQUEST_GAP_MS],
      [weight |-> HEAVY_WEIGHT, ts |-> PageLoadTs - MIN_REQUEST_GAP_MS]>>

PersistedRuns == {PriorRun(MaxPrior, PageLoadTs), AgedRun}

\* Arrays of objects that are no entries: the weight is missing, or the ts.
NonEntryLogs ==
    {<<[weight |-> NotANumber, ts |-> PageLoadTs - MIN_REQUEST_GAP_MS]>>,
     <<[weight |-> HEAVY_WEIGHT, ts |-> NotANumber]>>}

ProcSlots ==
    {[kind |-> k, log |-> <<>>] : k \in {"none", "absent"} \cup ThrowingKinds}
    \cup {[kind |-> "notEntries", log |-> l] : l \in NonEntryLogs}
    \cup {[kind |-> k, log |-> l] : k \in {"entries", "full"}, l \in PersistedRuns}

RunningProc(run) ==
    [DownProc EXCEPT !.up = TRUE, !.startedAt = run[1].ts, !.weightLog = run,
                     !.lastRequestTs = run[Len(run)].ts, !.slotKind = "absent",
                     !.own = run, !.writes = Len(run), !.wrote = run]

InitProcs ==
    /\ InitWith(ProcSlots)
    /\ NoWalk
    /\ gate = NoGate /\ lib = NoLib /\ posn = NoPositions
    /\ \/ procs = NoProcs
       \/ /\ stored.kind = "entries"
          /\ procs = [NoProcs EXCEPT ![1] = RunningProc(stored.log)]

\* Process p starts: the module is evaluated, loadWeightLog() runs (line 50).
\* Processes start in the order of their numbers.
ProcStart(p) ==
    /\ ~procs[p].up
    /\ \A q \in Procs : q < p => procs[q].up
    /\ procs' = [procs EXCEPT ![p] =
                    [@ EXCEPT !.up = TRUE, !.startedAt = now,
                              !.weightLog = loadWeightLog(stored, now),
                              !.loaded = loadWeightLog(stored, now),
                              !.slotKind = stored.kind]]
    /\ UNCHANGED <<now, weightLog, lastRequestTs, stored, checkedAt, postVars,
                   walkVars, gate, lib, posn>>

\* A process that reads the slot again at every budget test.
AdmitLedger_Reread(log, slot, t) == loadWeightLog(slot, t)

\* The ledger the budget test of a process reads at time t: consumedWeight()
\* prunes the module's own weightLog; the slot is not consulted.
AdmitLedger(log, slot, t) == PruneLog(log, t)

\* waitForBudget(w) is called in process p when no gap sleep is due, and
\* runs to its return or to its poll sleep: consumedWeight() prunes the
\* process's ledger; with the budget the entry is pushed and the ledger
\* saved, without it the call is suspended.
ProcAdmit(p, w) ==
    LET me == procs[p]
        log == AdmitLedger(me.weightLog, stored, now)
        granted == Append(log, [weight |-> w, ts |-> now])
        outcome == IF BudgetOk(SumWeights(log), w) THEN "granted" ELSE "blocked"
    IN  /\ me.up
        /\ me.admits < MaxProcAdmits
        /\ GapSleep(now, me.lastRequestTs) = 0
        /\ IF outcome = "granted"
           THEN /\ stored' = SaveSlot(stored, granted)
                /\ procs' = [procs EXCEPT ![p] =
                      [@ EXCEPT !.weightLog = granted, !.lastRequestTs = now,
                                !.own = Append(@, [weight |-> w, ts |-> now]),
                                !.admits = @ + 1,
                                !.first = IF @ = "none" THEN outcome ELSE @,
                                !.err = SaveError(stored),
                                !.writes = IF stored.kind \in UnwritableKinds
                                           THEN @ ELSE @ + 1,
                                !.wrote = IF stored.kind \in UnwritableKinds THEN @ ELSE granted]]
           ELSE /\ stored' = stored
                /\ procs' = [procs EXCEPT ![p] =
                      [@ EXCEPT !.weightLog = log, !.admits = @ + 1,
                                !.first = IF @ = "none" THEN outcome ELSE @]]
        /\ UNCHANGED <<now, weightLog, lastRequestTs, checkedAt, postVars,
                       walkVars, gate, lib, posn>>

\* onRateLimited() runs in process p (a 429 answer to one of its fetches).
ProcRateLimited(p) ==
    /\ procs[p].up
    /\ \A q \in Procs : procs[q].resets < MaxProcResets
    /\ stored' = SaveSlot(stored, ExhaustedLog(now))
    /\ procs' = [procs EXCEPT ![p] =
          [@ EXCEPT !.weightLog = ExhaustedLog(now), !.resets = @ + 1,
                    !.err = SaveError(stored),
                    !.writes = IF stored.kind \in UnwritableKinds THEN @ ELSE @ + 1,
                    !.wrote = IF stored.kind \in UnwritableKinds THEN @ ELSE ExhaustedLog(now)]]
    /\ UNCHANGED <<now, weightLog, lastRequestTs, checkedAt, postVars, walkVars,
                   gate, lib, posn>>

\* MIN_REQUEST_GAP_MS pass.
ProcTick ==
    /\ now < PageLoadTs + MaxProcTicks * MIN_REQUEST_GAP_MS
    /\ now' = now + MIN_REQUEST_GAP_MS
    /\ UNCHANGED <<weightLog, lastRequestTs, stored, checkedAt, postVars, walkVars,
                   gate, lib, procs, posn>>

NextProcs ==
    \/ \E p \in Procs : ProcStart(p)
    \/ \E p \in Procs : ProcAdmit(p, HEAVY_WEIGHT)
    \/ \E p \in Procs : ProcRateLimited(p)
    \/ ProcTick

SpecProcs == InitProcs /\ [][NextProcs]_vars

\* ------------------------------------------------------------------------
\* C22: reload keeps the budget.  When a process starts at time now over a
\* slot that holds the ledger another process has persisted (that process
\* made the last write, and the write went through), the ledger
\* loadWeightLog leaves is exactly the stored entries with
\* ts >= now - WEIGHT_WINDOW_MS, in their order, and its sum is what
\* consumedWeight() of the persisting process returns at the same now.
C22_ReloadKeepsBudget ==
    [][\A q \in Procs, p \in Procs :
          (/\ ~procs[q].up /\ procs'[q].up
           /\ procs[p].up /\ procs[p].writes >= 1
           /\ stored.kind = "entries" /\ stored.log = procs[p].wrote)
          => /\ procs'[q].weightLog =
                   SelectSeq(stored.log, LAMBDA e : e.ts >= now - WEIGHT_WINDOW_MS)
             /\ \A i \in 1 .. Len(stored.log) :
                   stored.log[i].ts < now - WEIGHT_WINDOW_MS =>
                      \A j \in 1 .. Len(procs'[q].weightLog) :
                         procs'[q].weightLog[j] # stored.log[i]
             /\ SumWeights(procs'[q].weightLog) = consumedWeight(procs[p].weightLog, now)
      ]_vars

\* The second process has just started over the slot the first one wrote:
\* one stored entry had left the window and was dropped, the others were
\* loaded, a grant of the first process among them.
C22_Witness ==
    /\ procs[1].up /\ procs[2].up
    /\ procs[2].startedAt = now /\ procs[2].admits = 0 /\ procs[2].resets = 0
    /\ procs[1].admits >= 1 /\ procs[1].first = "granted"
    /\ stored.kind = "entries" /\ stored.log = procs[1].wrote
    /\ Len(procs[2].loaded) >= 2
    /\ Len(procs[2].loaded) < Len(stored.log)
    /\ SumWeights(procs[2].weightLog) = consumedWeight(procs[1].weightLog, now)

\* ------------------------------------------------------------------------
\* C23: storage corruption is non-fatal.  A process that started over a
\* slot that was missing, held invalid JSON, or held JSON that is not an
\* array of entries has loaded an empty ledger, and (no onRateLimited having
\* run in it) its first waitForBudget call was granted without suspension.
CorruptKinds == {"none", "absent", "invalidJson", "notArray", "nullItem", "notEntries"}
C23_CorruptSlotFailsOpen ==
    \A p \in Procs :
        (procs[p].up /\ procs[p].slotKind \in CorruptKinds) =>
            /\ procs[p].loaded = <<>>
            /\ procs[p].resets = 0 => procs[p].first # "blocked"

\* ------------------------------------------------------------------------
\* C24: storage write failures are swallowed.  While the storage cannot be
\* written (setItem throws, or there is no localStorage), no process has
\* written the slot and the slot is as it was; no save has raised an error
\* to its caller; every grant is in the granting process's in-memory ledger
\* (the ledger is what is left of the loaded entries, followed by the
\* process's own grants); an onRateLimited run has left exactly the
\* synthetic entry there; and no call decided on an exhausted in-memory
\* ledger was granted, whatever the slot holds.
C24_WriteFailureSwallowed ==
    stored.kind \in UnwritableKinds =>
        /\ stored \in ProcSlots
        /\ \A p \in Procs :
              procs[p].up =>
                 /\ procs[p].writes = 0
                 /\ procs[p].err = "none"
                 /\ procs[p].resets = 0 =>
                       /\ \E k \in 0 .. Len(procs[p].loaded) :
                             procs[p].weightLog =
                                SubSeq(procs[p].loaded, k + 1, Len(procs[p].loaded))
                                   \o procs[p].own
                       /\ procs[p].first # "blocked"
                 /\ procs[p].resets >= 1 =>
                       /\ Len(procs[p].weightLog) = 1
                       /\ procs[p].weightLog[1].weight = WEIGHT_LIMIT
                       /\ procs[p].lastRequestTs <= procs[p].weightLog[1].ts + WEIGHT_WINDOW_MS \div 2

\* setItem throws: a process was granted a call, then ran onRateLimited,
\* and its next call was suspended on the in-memory ledger, while the slot
\* still holds what the process loaded.
C24_Witness ==
    /\ stored.kind = "full"
    /\ procs[1].up
    /\ procs[1].slotKind = "full"
    /\ Len(procs[1].own) = 1
    /\ procs[1].resets = 1
    /\ procs[1].admits = 2
    /\ procs[1].weightLog = ExhaustedLog(now)
    /\ stored.log = PriorRun(MaxPrior, PageLoadTs)

\* ------------------------------------------------------------------------
\* C25: what changes the ledger.  As stated: every step either leaves the
\* in-memory ledger as it is, or appends one entry to it as it is (record),
\* or replaces it by the synthetic entry (markExhausted).
C25_OnlyRecordAndExhaust ==
    [][\/ weightLog' = weightLog
       \/ /\ lastRequestTs' = now
          /\ \E w \in {LIGHT_WEIGHT, HEAVY_WEIGHT} :
                weightLog' = Append(weightLog, [weight |-> w, ts |-> now])
       \/ /\ resets' = resets + 1
          /\ weightLog' = <<[weight |-> WEIGHT_LIMIT, ts |-> now - WEIGHT_WINDOW_MS \div 2]>>
      ]_vars

\* C25, amended: besides record and markExhausted the consumed()
\* computation changes the ledger, by dropping the entries older than the
\* window (a record that follows it in the same run appends to what is
\* left).  Nothing else does: not the passing of time (a backoff sleep, a
\* poll sleep, a gap sleep), and not a fetch that completes with success,
\* with a timeout or with an HTTP or transport error.
C25_LedgerChanges ==
    [][LET pruned == SelectSeq(weightLog, LAMBDA e : e.ts >= now - WEIGHT_WINDOW_MS)
       IN  /\ \/ weightLog' = weightLog
              \/ /\ checkedAt' = now
                 /\ weightLog' = pruned
              \/ /\ lastRequestTs' = now
                 /\ \E w \in {LIGHT_WEIGHT, HEAVY_WEIGHT} :
                       \/ weightLog' = Append(weightLog, [weight |-> w, ts |-> now])
                       \/ /\ checkedAt' = now
                          /\ weightLog' = Append(pruned, [weight |-> w, ts |-> now])
              \/ /\ resets' = resets + 1
                 /\ weightLog' = <<[weight |-> WEIGHT_LIMIT,
                                    ts |-> now - WEIGHT_WINDOW_MS \div 2]>>
           /\ now' # now => weightLog' = weightLog
           /\ \A c \in Callers :
                 (pc[c] = "fetch" /\ pc'[c] \in {"settled", "fetch"} /\ resets' = resets)
                    => weightLog' = weightLog
      ]_vars

\* The synthetic entry of an onRateLimited run has been dropped by the
\* consumed() computation of the retry's waitForBudget, and the grant was
\* appended to the empty ledger in the same run.
C25_Witness ==
    /\ resets >= 1
    /\ checkedAt = now
    /\ lastRequestTs = now
    /\ weightLog = <<[weight |-> HEAVY_WEIGHT, ts |-> now]>>
    /\ \E c \in Callers : pc[c] = "fetch" /\ hist[c].lastOut = "429"

\* ------------------------------------------------------------------------
\* C26: ledger order.  In every reachable state of one process the
\* timestamps of the ledger are non-decreasing from front to back (so
\* weightLog[1] is an oldest entry), and the entries stand in the order of
\* their grants: unless the synthetic entry of onRateLimited stands there,
\* the last entry is the one of the last grant and the one before it is the
\* one of the grant before.
C26_LedgerOrdered ==
    LET n == Len(weightLog)
        g == Len(grantLog)
        EntryOf(r) == [weight |-> r.weight, ts |-> r.ts]
    IN  /\ \A i \in 1 .. n : \A j \in 1 .. n :
              i < j => weightLog[i].ts <= weightLog[j].ts
        /\ \A i \in 1 .. n : weightLog[1].ts <= weightLog[i].ts
        /\ (g >= 1 /\ n >= 1 /\ weightLog[n].weight # WEIGHT_LIMIT)
              => weightLog[n] = EntryOf(grantLog[g])
        /\ (g >= 2 /\ n >= 2 /\ weightLog[n].weight # WEIGHT_LIMIT
                   /\ weightLog[n - 1].weight # WEIGHT_LIMIT)
              => weightLog[n - 1] = EntryOf(grantLog[g - 1])

\* onRateLimited has replaced the ledger by the backdated synthetic entry
\* and a later grant was appended behind it.
C26_Witness ==
    /\ resets >= 1
    /\ Len(weightLog) >= 2
    /\ weightLog[1].weight = WEIGHT_LIMIT
    /\ weightLog[2].ts > weightLog[1].ts + WEIGHT_WINDOW_MS \div 2
    /\ Len(grantLog) >= 1
    /\ weightLog[Len(weightLog)].ts = grantLog[Len(grantLog)].ts

\* ------------------------------------------------------------------------
\* C27: processes sharing the slot are not synchronized.  A process reads
\* the slot only at its start and decides from its own ledger afterwards:
\* before an onRateLimited run its ledger is what is left of the entries it
\* loaded followed by its own grants, never an entry another process pushed
\* after that; and every write overwrites the whole slot: once a process
\* has written, the slot holds exactly the ledger of one process at its
\* last write.  (That the processes together can then admit more than
\* WEIGHT_LIMIT within one window, and that a written entry can be lost
\* from the slot, is the state C27_Witness describes.)
C27_Unsynchronized ==
    /\ \A p \in Procs :
          (procs[p].up /\ procs[p].resets = 0) =>
             LET hist0 == procs[p].loaded \o procs[p].own
             IN  \E k \in 0 .. Len(hist0) :
                    procs[p].weightLog = SubSeq(hist0, k + 1, Len(hist0))
    /\ \A p \in Procs :
          (procs[p].up /\ procs[p].resets = 0 /\ procs[p].first = "blocked")
             => ~JsLeq(JsAdd(JsAdd(SumWeights(procs[p].loaded), SumWeights(procs[p].own)),
                             HEAVY_WEIGHT),
                       WEIGHT_LIMIT)
    /\ (\E p \in Procs : procs[p].writes >= 1 /\ stored.kind \notin UnwritableKinds)
          => /\ stored.kind = "entries"
             /\ \E p \in Procs : procs[p].writes >= 1 /\ stored.log = procs[p].wrote

\* Two processes run on one slot.  Within one window the first has been
\* granted 800 and the second 40 on top of that, each within its own
\* budget, and the slot, last written by the second process, has lost the
\* newest entry of the first.
C27_Witness ==
    /\ procs[1].up /\ procs[2].up
    /\ procs[1].resets = 0 /\ procs[2].resets = 0
    /\ SumWeights(PruneLog(procs[1].own, now)) = WEIGHT_LIMIT
    /\ SumWeights(PruneLog(procs[2].own, now)) = 2 * HEAVY_WEIGHT
    /\ SumWeights(procs[1].weightLog) <= WEIGHT_LIMIT
    /\ SumWeights(procs[2].weightLog) <= WEIGHT_LIMIT
    /\ stored.kind = "entries"
    /\ stored.log = procs[2].wrote
    /\ LET mine == procs[1].own
       IN  /\ mine[Len(mine)].ts >= now - WEIGHT_WINDOW_MS
           /\ \A i \in 1 .. Len(stored.log) : stored.log[i] # mine[Len(mine)]

\* ------------------------------------------------------------------------
\* C28: after a 429, pending requests also wait.  Once a caller's fetch has
\* been answered 429 at time T (onRateLimited ran at T), no grant made after
\* T is made before T + WEIGHT_WINDOW_MS / 2; T is the t429 of the caller's
\* current call.
C28_PendingAlsoWait ==
    \A c \in Callers :
        hist[c].lastOut = "429" =>
            \A i \in 1 .. Len(grantLog) :
                grantLog[i].ts > hist[c].t429 =>
                    grantLog[i].ts >= hist[c].t429 + WEIGHT_WINDOW_MS \div 2

\* ------------------------------------------------------------------------
\* C29: bounded poll sleep.  A caller in the poll sleep sleeps from the
\* consumed() call that found the budget insufficient for at least the
\* floor and at most the ceiling; the step that ends the sleep happens at
\* its deadline and evaluates consumed() anew; and whatever the age of the
\* oldest entry (none, or an age within the window: every multiple of
\* five seconds, and the ages at which the floor and the ceiling of either
\* limiter take over, one millisecond to either side) the sleep computed
\* is within 500 ms .. 10 s for part_000 and within 200 ms .. 5 s for
\* lib/hyperliquid.ts.
PollAges ==
    {k * LIB_POLL_CEILING_MS : k \in 0 .. WEIGHT_WINDOW_MS \div LIB_POLL_CEILING_MS}
    \cup {WEIGHT_WINDOW_MS + m - s + d :
            m \in {POLL_MARGIN_MS, LIB_POLL_MARGIN_MS},
            s \in {POLL_FLOOR_MS, POLL_CEILING_MS, LIB_POLL_FLOOR_MS, LIB_POLL_CEILING_MS},
            d \in {-1, 0, 1}}
C29_PollSleepBounded ==
    /\ [](\A c \in Callers :
             pc[c] = "pollSleep" =>
                /\ wakeAt[c] - checkedAt >= POLL_FLOOR_MS
                /\ wakeAt[c] - checkedAt <= POLL_CEILING_MS
                /\ now <= wakeAt[c])
    /\ [](\A log \in {<<>>} \cup {<<[weight |-> WEIGHT_LIMIT, ts |-> now - a]>> : a \in PollAges} :
             /\ PollSleep(log, now) \in POLL_FLOOR_MS .. POLL_CEILING_MS
             /\ LibPollSleep(log, now) \in LIB_POLL_FLOOR_MS .. LIB_POLL_CEILING_MS)
    /\ [][\A c \in Callers :
             (pc[c] = "pollSleep" /\ (pc'[c] # "pollSleep" \/ wakeAt'[c] # wakeAt[c]))
                => /\ now = wakeAt[c]
                   /\ checkedAt' = now
                   /\ weightLog' \in
                         {SelectSeq(weightLog, LAMBDA e : e.ts >= now - WEIGHT_WINDOW_MS),
                          Append(SelectSeq(weightLog, LAMBDA e : e.ts >= now - WEIGHT_WINDOW_MS),
                                 [weight |-> getWeight(reqType[c]), ts |-> now])}
         ]_vars

\* After a 429 the retry found the synthetic entry in the window, slept the
\* ceiling (the entry's expiry being further away), and is asleep again
\* after a second look.
C29_Witness ==
    \E c \in Callers :
        /\ pc[c] = "pollSleep"
        /\ hist[c].lastOut = "429"
        /\ weightLog = ExhaustedLog(hist[c].t429)
        /\ checkedAt >= hist[c].t429 + BackoffDelay(0) + POLL_CEILING_MS
        /\ wakeAt[c] - checkedAt = POLL_CEILING_MS

\* ------------------------------------------------------------------------
\* C30: no duplicate fills.  Provided every page received so far held only
\* fills with time >= the startTime of its request, in non-decreasing time
\* order, no fill stands twice in the accumulator (which is what the call
\* returns), and the startTime values of successive requests are strictly
\* increasing.
PageFills(k) ==
    LET off == SumSizes(SubSeq(pages, 1, k - 1))
    IN  SubSeq(allFills, off + 1, off + pages[k].size)

PagesInOrder ==
    \A k \in 1 .. Len(pages) :
        LET fills == PageFills(k)
        IN  /\ \A i \in 1 .. Len(fills) : FeedTime(feed, fills[i]) >= reqs[k].startTime
            /\ \A i \in 1 .. Len(fills) - 1 :
                  FeedTime(feed, fills[i]) <= FeedTime(feed, fills[i + 1])

C30_NoDuplicateFills ==
    PagesInOrder =>
        /\ Cardinality({allFills[i] : i \in 1 .. Len(allFills)}) = Len(allFills)
        /\ \A k \in 1 .. Len(reqs) - 1 : reqs[k].startTime < reqs[k + 1].startTime
        /\ walkResult.kind = "resolved" => walkResult.fills = allFills

\* Three pages came from an honest server whose fills share their times in
\* pairs; the call has returned 5500 different fills.
C30_Witness ==
    /\ feed.mode = "honest"
    /\ feed.g = 2
    /\ PagesInOrder
    /\ Len(pages) = 3
    /\ pages[3].size > 0
    /\ wpc = "returned"
    /\ Cardinality({allFills[i] : i \in 1 .. Len(allFills)}) = 5500
    /\ reqs[1].startTime < reqs[2].startTime /\ reqs[2].startTime < reqs[3].startTime

\* ------------------------------------------------------------------------
\* The limiter of src/lib/hyperliquid.ts under concurrent callers
\* ------------------------------------------------------------------------
\* The module has been in use: its ledger is empty, or holds a burst of
\* heavy grants made in one millisecond (the module has no gap sleep) that
\* leaves the window LIB_POLL_FLOOR_MS after PageLoadTs, one grant short of
\* the limit or at the limit, or half such a burst followed by another half
\* a millisecond before PageLoadTs.
MaxLibCalls == 4
MaxLibTicks == 2

LibBurst(n, t) == [i \in 1 .. n |-> [weight |-> HEAVY_WEIGHT, ts |-> t]]

LibLedgers ==
    LET full == LIB_WEIGHT_LIMIT \div HEAVY_WEIGHT
        old == PageLoadTs - WEIGHT_WINDOW_MS + LIB_POLL_FLOOR_MS
    IN  {<<>>, LibBurst(full - 1, old), LibBurst(full, old),
         LibBurst(full \div 2, old) \o LibBurst(full \div 2, PageLoadTs - 1)}

InitLibCallers ==
    /\ now = PageLoadTs
    /\ stored = [kind |-> "none", log |-> <<>>]
    /\ weightLog \in LibLedgers
    /\ lastRequestTs = 0
    /\ pc = [c \in Callers |-> "idle"]
    /\ reqType = [c \in Callers |-> "userFillsByTime"]
    /\ attempt = [c \in Callers |-> -1]
    /\ wakeAt = [c \in Callers |-> 0]
    /\ timer = [c \in Callers |-> 0]
    /\ result = [c \in Callers |-> "none"]
    /\ calls = 0
    /\ seenUsed = [c \in Callers |-> 0]
    /\ dirty = [c \in Callers |-> "clean"]
    /\ grantLog = <<>>
    /\ resets = 0
    /\ n429 = 0
    /\ hist = [c \in Callers |-> NoHist]
    /\ checkedAt = 0
    /\ NoWalk
    /\ gate = NoGate /\ lib = NoLib /\ procs = NoProcs /\ posn = NoPositions

\* One iteration of the loop of waitForBudget(weight) for caller c (lines
\* 32-45): no await stands between consumedWeight() and the push.
LibCallerIteration(c, type) ==
    LET log == LibPrune(weightLog, now)
        used == SumWeights(log)
    IN  /\ reqType' = [reqType EXCEPT ![c] = type]
        /\ IF LibBudgetOk(used, getWeight(type))
           THEN /\ weightLog' = Append(log, [weight |-> getWeight(type), ts |-> now])
                /\ pc' = [pc EXCEPT ![c] = "idle"]
                /\ wakeAt' = [wakeAt EXCEPT ![c] = 0]
                /\ grantLog' = LastTwo(grantLog,
                      [ts |-> now, weight |-> getWeight(type), seen |-> used,
                       actual |-> used, interleaved |-> "clean"])
           ELSE /\ weightLog' = log
                /\ pc' = [pc EXCEPT ![c] = "pollSleep"]
                /\ wakeAt' = [wakeAt EXCEPT ![c] = now + LibPollSleep(log, now)]
                /\ grantLog' = grantLog

\* Caller c awaits waitForBudget(getWeight(type)).
LibCall(c) ==
    /\ pc[c] = "idle"
    /\ calls < MaxLibCalls
    /\ calls' = calls + 1
    /\ \E type \in CallTypes : LibCallerIteration(c, type)
    /\ UNCHANGED <<now, lastRequestTs, stored, attempt, timer, result, seenUsed,
                   dirty, resets, n429, hist, checkedAt, walkVars, gate, lib, procs, posn>>

\* The poll timer of caller c fires.
LibCallerWake(c) ==
    /\ pc[c] = "pollSleep"
    /\ wakeAt[c] = now
    /\ LibCallerIteration(c, reqType[c])
    /\ UNCHANGED <<now, lastRequestTs, stored, attempt, timer, result, calls,
                   seenUsed, dirty, resets, n429, hist, checkedAt, walkVars, gate,
                   lib, procs, posn>>

\* Time passes: up to the earliest poll timer, or, with no caller asleep,
\* LIB_POLL_FLOOR_MS at a time.
LibClock ==
    LET asleep == {c \in Callers : pc[c] = "pollSleep"}
    IN  /\ IF asleep # {}
           THEN /\ \A c \in asleep : wakeAt[c] > now
                /\ \E c \in asleep :
                      /\ \A d \in asleep : wakeAt[c] <= wakeAt[d]
                      /\ now' = wakeAt[c]
           ELSE /\ now < PageLoadTs + MaxLibTicks * LIB_POLL_FLOOR_MS
                /\ now' = now + LIB_POLL_FLOOR_MS
        /\ UNCHANGED <<weightLog, lastRequestTs, stored, pc, reqType, attempt, wakeAt,
                       timer, result, calls, seenUsed, dirty, grantLog, resets, n429,
                       hist, checkedAt, walkVars, gate, lib, procs, posn>>

NextLibCallers ==
    \/ \E c \in Callers : LibCall(c)
    \/ \E c \in Callers : LibCallerWake(c)
    \/ LibClock

SpecLibCallers == InitLibCallers /\ [][NextLibCallers]_vars

\* ------------------------------------------------------------------------
\* C31: in the limiter of src/lib/hyperliquid.ts the weights of the ledger
\* entries inside the window sum to at most its WEIGHT_LIMIT in every
\* reachable state, whatever the callers and their interleaving.
C31_LibBudgetNeverExceeded ==
    SumWeights(SelectSeq(weightLog, LAMBDA e : e.ts >= now - WEIGHT_WINDOW_MS))
        <= LIB_WEIGHT_LIMIT

\* The ledger is at the limit after a grant of this millisecond, and another
\* caller that asked in the same millisecond is asleep in the poll loop.
C31_Witness ==
    /\ SumWeights(SelectSeq(weightLog, LAMBDA e : e.ts >= now - WEIGHT_WINDOW_MS))
          = LIB_WEIGHT_LIMIT
    /\ weightLog[Len(weightLog)].ts = now
    /\ calls >= 2
    /\ \E c \in Callers : pc[c] = "pollSleep" /\ wakeAt[c] > now

\* ------------------------------------------------------------------------
\* C32: sequential use of the persistent limiter.  When no other caller was
\* granted and no onRateLimited ran while the call was inside waitForBudget
\* (asleep for the gap or in the poll loop), consumed() is at most
\* WEIGHT_LIMIT right after the call's grant, the gap sleep between the
\* budget check and the push notwithstanding.
C32_SequentialWithinLimit ==
    (gate.pc = "granted" /\ ~gate.overlap) =>
        /\ now = gate.grantedAt
        /\ weightLog[Len(weightLog)] = [weight |-> gate.weight, ts |-> now]
        /\ consumedWeight(weightLog, now) <= WEIGHT_LIMIT

\* Another caller was granted just before the call was made; the call
\* passed the budget check, slept the gap, and was granted, nobody else
\* having touched the ledger in between.
C32_Witness ==
    /\ gate.pc = "granted"
    /\ ~gate.overlap
    /\ gate.others >= 1
    /\ gate.polls = 0
    /\ gate.grantedAt = gate.startedAt + MIN_REQUEST_GAP_MS
    /\ Len(weightLog) >= 2

\* ------------------------------------------------------------------------
\* C33: every HTTP attempt is paid for.  At every fetch of a postInfo call
\* the grants the call has obtained are as many as the fetch attempts it has
\* started.
C33_EveryAttemptPaid ==
    \A c \in Callers :
        pc[c] = "fetch" => hist[c].grants = hist[c].sent

\* ------------------------------------------------------------------------
\* C34: the abort timer is armed only while a fetch is in flight.  While a
\* postInfo call is asleep in a backoff, in waitForBudget (gap or poll
\* sleep), or has settled, its abort timer is cleared; while a fetch is in
\* flight the timer stands at the fetch's start + timeoutMs; and a call that
\* failed with the timeout error had its last fetch in flight for timeoutMs.
C34_TimerOnlyInFlight ==
    \A c \in Callers :
        /\ pc[c] \in {"idle", "gapSleep", "pollSleep", "backoff", "settled"} => timer[c] = 0
        /\ pc[c] = "fetch" => timer[c] = hist[c].sentAt + DEFAULT_TIMEOUT_MS
        /\ (pc[c] = "settled" /\ result[c] = "timeout") =>
              /\ hist[c].lastOut = "abort"
              /\ now >= hist[c].sentAt + DEFAULT_TIMEOUT_MS

\* After a 429 the call has been waiting for admission for longer than
\* timeoutMs since its fetch was sent, and is still waiting, its timer
\* cleared.
C34_Witness ==
    \E c \in Callers :
        /\ pc[c] = "pollSleep"
        /\ hist[c].lastOut = "429"
        /\ now > hist[c].sentAt + DEFAULT_TIMEOUT_MS
        /\ timer[c] = 0
        /\ result[c] = "none"

\* ------------------------------------------------------------------------
\* C35: admission is not first-come-first-served.  While a call is asleep
\* in the poll loop, a caller that arrives later is granted as soon as the
\* budget test passes for its own weight at its own time (and no gap is
\* left to sleep): the admission is enabled whatever the sleeping call
\* waits for; and a call that was overtaken in this way had been suspended
\* before and is granted, if at all, no earlier than the caller that
\* overtook it.
C35_NoQueue ==
    /\ (/\ gate.pc = "pollSleep"
        /\ gate.others < MaxOthers
        /\ GapSleep(now, lastRequestTs) = 0
        /\ SumWeights(SelectSeq(weightLog, LAMBDA e : e.ts >= now - WEIGHT_WINDOW_MS))
              + HEAVY_WEIGHT <= WEIGHT_LIMIT)
          => ENABLED OtherAdmission
    /\ gate.overtaken =>
          /\ gate.polls >= 1
          /\ gate.others >= 1
          /\ gate.pc \in {"pollSleep", "gapSleep", "granted"}
          /\ gate.pc = "granted" => gate.grantedAt > gate.startedAt

\* A call for the whole limit went to sleep in the poll loop over a ledger
\* that holds a few grants; a heavy call that arrived later has been
\* granted, and the earlier call is still asleep.
C35_Witness ==
    /\ gate.pc = "pollSleep"
    /\ gate.weight = WEIGHT_LIMIT
    /\ gate.overtaken
    /\ lastRequestTs > gate.startedAt
    /\ weightLog[Len(weightLog)] = [weight |-> HEAVY_WEIGHT, ts |-> lastRequestTs]

\* ------------------------------------------------------------------------
\* C36: silent truncation at the page ceiling.  Once maxPages pages have
\* been received, every one of them full, the call has returned: it has
\* sent exactly maxPages requests, and its promise is resolved (not
\* rejected) with exactly maxPages * FILLS_PAGE_LIMIT fills, a result of
\* the same shape as a complete one, whether or not the server has more.
C36_SilentTruncation ==
    (/\ wpc # "idle"
     /\ Len(pages) = walk.maxPages
     /\ \A k \in 1 .. Len(pages) : pages[k].size = FILLS_PAGE_LIMIT)
    => /\ wpc = "returned"
       /\ Len(reqs) = walk.maxPages
       /\ walkResult = [kind |-> "resolved", fills |-> allFills, err |-> "none"]
       /\ Len(walkResult.fills) = walk.maxPages * FILLS_PAGE_LIMIT
       /\ raised = "none"

\* One page less was allowed than the honest server holds in the window,
\* and two pages came full: the call has returned the first 4000 fills as
\* its result.
C36_Witness ==
    /\ feed.mode = "honest"
    /\ feed.n = MaxPages * FILLS_PAGE_LIMIT
    /\ walk.maxPages = 2
    /\ walk.startTime = 0 /\ walk.endTime = NoEnd
    /\ wpc = "returned"
    /\ Len(pages) = 2
    /\ pages[1].size = FILLS_PAGE_LIMIT /\ pages[2].size = FILLS_PAGE_LIMIT
    /\ walkResult.kind = "resolved"
    /\ Len(walkResult.fills) = 2 * FILLS_PAGE_LIMIT
    /\ Len(WindowFills(feed, walk.startTime, walk.endTime)) > Len(walkResult.fills)


\* ---------------------------------------------------------------------------
\* getAllPositions(user): standard clearinghouse state, dex discovery from the
\* recent fills, one clearinghouse state per discovered dex.
\* ---------------------------------------------------------------------------

\* body.dex is left out of the standard request.
NoDex == "none"
DexNames == {"dexA", "dexB"}

\* A coin string: `colon` says whether it holds a ":", `dex` is the text before
\* the first ":" (empty when the string starts with it), `name` the rest.
Coin(dex, name) == [colon |-> TRUE, dex |-> dex, name |-> name]
PlainCoin(name) == [colon |-> FALSE, dex |-> "", name |-> name]

\* fill.coin.indexOf(":") > 0
HasDexPrefix(coin) == coin.colon /\ coin.dex # ""

\* The recent fills the server may hold for the user (their coins, in order).
RecentFills ==
    { <<>>,
      <<PlainCoin("BTC"), Coin("", "odd")>>,
      <<Coin("dexA", "X"), PlainCoin("BTC"), Coin("dexA", "Z")>>,
      <<Coin("dexB", "Y"), PlainCoin("ETH"), Coin("dexA", "X"), Coin("dexB", "Y")>> }

Position(coin, szi) == [coin |-> coin, szi |-> szi]
State(assetPositions) == [isArray |-> TRUE, assetPositions |-> assetPositions]
\* A clearinghouse state without an assetPositions array.
NoAssets == [isArray |-> FALSE, assetPositions |-> <<>>]

\* The clearinghouse states the server may hold, per venue.
Books == {"open", "bare"}
BookState(book, venue) ==
    IF book = "open"
    THEN CASE venue = NoDex  -> State(<<Position(PlainCoin("BTC"), 5),
                                        Position(PlainCoin("ETH"), 0)>>)
           [] venue = "dexA" -> State(<<Position(PlainCoin("X"), 3)>>)
           [] OTHER          -> State(<<Position(Coin("dexB", "Y"), 0),
                                        Position(Coin("dexB", "Z"), 0 - 2)>>)
    ELSE CASE venue = NoDex  -> NoAssets
           [] venue = "dexA" -> State(<<Position(Coin("dexA", "X"), 1),
                                        Position(PlainCoin("W"), 4)>>)
           [] OTHER          -> State(<<>>)

\* new Set filled by dexNames.add in fill order: first appearances, in order.
RECURSIVE DexesOf(_)
DexesOf(fills) ==
    IF fills = <<>> THEN <<>>
    ELSE LET rest == DexesOf(SubSeq(fills, 1, Len(fills) - 1))
             coin == fills[Len(fills)]
         IN IF HasDexPrefix(coin) /\ \A i \in 1..Len(rest) : rest[i] # coin.dex
            THEN Append(rest, coin.dex)
            ELSE rest

\* pos.coin = `${dex}:${pos.coin}` when pos.coin holds no ":".
Prefixed(pos, dex) ==
    IF dex # NoDex /\ ~pos.coin.colon
    THEN [pos EXCEPT !.coin = Coin(dex, pos.coin.name)]
    ELSE pos

\* The positions one clearinghouse state adds to allPositions.
RECURSIVE OpenPositions(_, _)
OpenPositions(assetPositions, dex) ==
    IF assetPositions = <<>> THEN <<>>
    ELSE LET pos == Head(assetPositions)
             rest == OpenPositions(Tail(assetPositions), dex)
         IN IF pos.szi # 0 THEN <<Prefixed(pos, dex)>> \o rest ELSE rest

PositionsOf(state, dex) ==
    IF state.isArray THEN OpenPositions(state.assetPositions, dex) ELSE <<>>

ClearinghouseRequest(dex) == [type |-> "clearinghouseState", dex |-> dex]
UserFillsRequest == [type |-> "userFills", dex |-> NoDex]

PositionsResolved(positions) ==
    [kind |-> "resolved", positions |-> positions, err |-> "none"]
PositionsRejected(err) ==
    [kind |-> "rejected", positions |-> <<>>, err |-> err]

DiscoveryFailure_Rethrown(positions, err) == PositionsRejected(err)

\* catch of step 2: console.error, then return allPositions.
DiscoveryFailure(positions, err) == PositionsResolved(positions)

PositionOutcomes == {"ok"} \cup PostErrors

InitPositions ==
    /\ InitWith({[kind |-> "absent", log |-> <<>>]})
    /\ NoWalk
    /\ gate = NoGate /\ lib = NoLib /\ procs = NoProcs
    /\ posn = NoPositions

\* getAllPositions(user) is called: step 1 sends the standard request.
PositionsCall(fills, book) ==
    /\ posn.pc = "idle"
    /\ posn' = [posn EXCEPT !.pc = "standard", !.fills = fills, !.book = book,
                            !.asked = <<ClearinghouseRequest(NoDex)>>]
    /\ UNCHANGED <<limVars, walkVars, gate, lib, procs>>

\* The standard request settles; step 2 sends the userFills request.
StandardAnswer(outcome) ==
    /\ posn.pc = "standard"
    /\ posn' = [posn EXCEPT
          !.pc = "discovery",
          !.answers = Append(@, outcome),
          !.allPositions = IF outcome = "ok"
                           THEN PositionsOf(BookState(posn.book, NoDex), NoDex)
                           ELSE @,
          !.asked = Append(@, UserFillsRequest)]
    /\ UNCHANGED <<limVars, walkVars, gate, lib, procs>>

\* The userFills request settles: on failure the call returns what it has, on
\* success step 3 sends the request of the first dex (or returns if none).
DiscoveryAnswer(outcome) ==
    /\ posn.pc = "discovery"
    /\ LET names == DexesOf(posn.fills)
       IN posn' =
            IF outcome # "ok"
            THEN [posn EXCEPT !.pc = "settled",
                              !.answers = Append(@, outcome),
                              !.result = DiscoveryFailure(posn.allPositions, outcome)]
            ELSE IF names = <<>>
            THEN [posn EXCEPT !.pc = "settled",
                              !.answers = Append(@, outcome),
                              !.result = PositionsResolved(posn.allPositions)]
            ELSE [posn EXCEPT !.pc = "dex",
                              !.answers = Append(@, outcome),
                              !.dexNames = names, !.dex = 1,
                              !.asked = Append(@, ClearinghouseRequest(names[1]))]
    /\ UNCHANGED <<limVars, walkVars, gate, lib, procs>>

\* The request of the current dex settles; the loop moves to the next dex, or
\* the call returns allPositions.
DexAnswer(outcome) ==
    /\ posn.pc = "dex"
    /\ LET name == posn.dexNames[posn.dex]
           all == IF outcome = "ok"
                  THEN posn.allPositions \o PositionsOf(BookState(posn.book, name), name)
                  ELSE posn.allPositions
       IN posn' =
            IF posn.dex < Len(posn.dexNames)
            THEN [posn EXCEPT !.answers = Append(@, outcome),
                              !.allPositions = all,
                              !.dex = @ + 1,
                              !.asked = Append(@, ClearinghouseRequest(posn.dexNames[posn.dex + 1]))]
            ELSE [posn EXCEPT !.pc = "settled",
                              !.answers = Append(@, outcome),
                              !.allPositions = all,
                              !.result = PositionsResolved(all)]
    /\ UNCHANGED <<limVars, walkVars, gate, lib, procs>>

NextPositions ==
    \/ \E fills \in RecentFills, book \in Books : PositionsCall(fills, book)
    \/ \E outcome \in PositionOutcomes : StandardAnswer(outcome)
    \/ \E outcome \in PositionOutcomes : DiscoveryAnswer(outcome)
    \/ \E outcome \in PositionOutcomes : DexAnswer(outcome)

SpecPositions == InitPositions /\ [][NextPositions]_vars

\* The positions of the requests that succeeded, in the order asked.
RECURSIVE SucceededPositions(_, _, _)
SucceededPositions(asked, answers, book) ==
    IF answers = <<>> THEN <<>>
    ELSE LET n == Len(answers)
             before == SucceededPositions(SubSeq(asked, 1, n - 1),
                                          SubSeq(answers, 1, n - 1), book)
         IN IF answers[n] = "ok" /\ asked[n].type = "clearinghouseState"
            THEN before \o PositionsOf(BookState(book, asked[n].dex), asked[n].dex)
            ELSE before

\* C37: getAllPositions never rejects; at most one of its requests is in
\* flight, and they go out in the order standard state, userFills, one state
\* per discovered dex; whichever requests fail, it resolves with the positions
\* of those that succeeded; a failed discovery sends no per-dex request and
\* resolves with the standard positions only.
C37_NeverRejects ==
    /\ posn.result.kind # "rejected"
    /\ Len(posn.asked) - Len(posn.answers) = IF posn.pc \in {"idle", "settled"} THEN 0 ELSE 1
    /\ \A i \in 1..Len(posn.asked) :
          posn.asked[i] = IF i = 1 THEN ClearinghouseRequest(NoDex)
                          ELSE IF i = 2 THEN UserFillsRequest
                          ELSE ClearinghouseRequest(DexesOf(posn.fills)[i - 2])
    /\ posn.pc = "settled" =>
          /\ posn.result.kind = "resolved"
          /\ posn.result.positions =
                SucceededPositions(posn.asked, posn.answers, posn.book)
          /\ IF posn.answers[2] = "ok"
             THEN Len(posn.asked) = 2 + Len(DexesOf(posn.fills))
             ELSE /\ Len(posn.asked) = 2
                  /\ posn.result.positions =
                        IF posn.answers[1] = "ok"
                        THEN PositionsOf(BookState(posn.book, NoDex), NoDex)
                        ELSE <<>>

\* The standard request and one of two per-dex requests failed, and the call
\* resolved with the other dex's positions.
C37_Witness ==
    /\ posn.pc = "settled"
    /\ Len(posn.asked) = 4
    /\ posn.answers[1] # "ok"
    /\ posn.answers[3] # "ok"
    /\ posn.answers[4] = "ok"
    /\ posn.result.kind = "resolved"
    /\ posn.result.positions # <<>>

=============================================================================
